---------------------------- MODULE Spec2Model ----------------------------
(***************************************************************************)
(* A model of currust: the ANI (RIFF/ACON) decoder, the loader that turns  *)
(* an AniFile into a GenericCursor, the GenericCursor scale registry and   *)
(* the Xcursor encoder.                                                    *)
(*                                                                         *)
(* The module holds several specifications over one set of variables; each *)
(* specification leaves the variables of the others unchanged:             *)
(*   Spec      from_blob chunk loop, check_invariants, from_ani_path       *)
(*   SpecJiffy the jiffy -> millisecond conversion on 32-bit inputs        *)
(*   SpecPix   to_pre_argb on one RGBA pixel                               *)
(*   SpecXcur  GenericCursor::new / new_with_scaled / add_scale,           *)
(*             Xcursor::new and the binwrite of the Xcursor                *)
(***************************************************************************)
EXTENDS Integers, Sequences, FiniteSets, TLC

VARIABLES
    \* ---- formats/ani.rs: AniFile::from_blob
    ani,        \* the AniFile under construction (`ani` in from_blob)
    buf,        \* the fourcc read last by the chunk loop (`buf`)
    seen,       \* how often each chunk kind occurred in the blob read so far
    st,         \* "parsing", "ok" (from_blob returned Ok), "err" (returned Err)
    \* ---- cursors/generic_cursor.rs: GenericCursor::from_ani_path
    order,      \* the play order the loader used (indices into ico_frames)
    icos,       \* the decoded IconDir of every ico frame
    cur,        \* <<>> or <<GenericCursor>>: the loader's result
    ld,         \* "idle", "ok", "err", "panic": how from_ani_path ended
    \* ---- the jiffy conversion of from_ani_path
    jif,        \* a u32 jiffy value as <<lo, hi>> 16-bit limbs
    ms,         \* <<>> or <<limbs>>: the converted delay
    \* ---- formats/xcursor.rs: to_pre_argb
    pixel,      \* one RGBA pixel <<R, G, B, A>>
    pre,        \* <<>> or <<four bytes>>: the pixel after to_pre_argb
    \* ---- GenericCursor and the Xcursor encoder
    gc,         \* <<>> or <<GenericCursor>>
    info,       \* <<>> or <<comment length>>: GenericCursor::info()
    lastAdd,    \* what the last add_scale call returned: "none", "ok", "err"
    xcur,       \* <<>> or <<Xcursor>>: result of Xcursor::new
    file,       \* <<>> or <<written file>>: result of Xcursor::write
    \* ---- one call of a function: CursorImage::new, CursorImages::try_from,
    \* ---- parse_inf_installer, expand
    arg,        \* <<>> or <<the arguments of the call>>
    ret,        \* <<>> or <<what the call returned>>
    \* ---- themes/theme.rs: CursorTheme::save_as_x11_theme
    fs,         \* the cursors directory: name -> the entry of that name
    task,       \* per cursor of the theme: how far its save_as_xcursor got
    theme       \* how far save_as_x11_theme got

aniVars == <<ani, buf, seen, st, order, icos, cur, ld>>
jifVars == <<jif, ms>>
pixVars == <<pixel, pre>>
xcVars  == <<gc, info, lastAdd, xcur, file>>
callVars == <<arg, ret>>
saveVars == <<fs, task, theme>>
vars    == <<ani, buf, seen, st, order, icos, cur, ld, jif, ms, pixel, pre,
             gc, info, lastAdd, xcur, file, arg, ret, fs, task, theme>>

(***************************************************************************)
(* Bounds of the model.                                                    *)
(***************************************************************************)
MaxFrames == 2      \* icon subchunks in a fram list; header.num_frames
MaxSteps  == 1      \* header.num_steps; length of rate / seq tables in a blob
MaxSeen   == 2      \* `seen` counts up to this; more occurrences count as this

(***************************************************************************)
(* Helpers.                                                                *)
(***************************************************************************)
None == <<>>
Some(x) == <<x>>
IsSome(o) == o # <<>>
Unwrap(o) == o[1]

Min(a, b) == IF a < b THEN a ELSE b
Max(a, b) == IF a > b THEN a ELSE b

SeqsUpTo(S, n) == UNION {[1..k -> S] : k \in 0..n}

RECURSIVE SeqMax(_)
\* Iterator::max over a Vec<u32>: None for the empty vector.
SeqMax(s) ==
    IF s = <<>> THEN None
    ELSE LET rest == SeqMax(Tail(s))
         IN  IF IsSome(rest) /\ Unwrap(rest) > Head(s) THEN rest ELSE Some(Head(s))

(***************************************************************************)
(* formats/ani.rs: AniHeader, AniFile.                                     *)
(***************************************************************************)
Unsequenced == 1
Sequenced   == 3
AnihSize    == 36

AniHeaderDefault ==
    [num_frames |-> 0, num_steps |-> 0, jiffy_rate |-> 0, flags |-> Unsequenced]

AniFileDefault ==
    [header |-> AniHeaderDefault, title |-> None, author |-> None,
     rate |-> None, sequence |-> None, ico_frames |-> <<>>]

\* The jiffy values the model's blobs use for jiffy_rate and rate entries.
JiffySet == {0, 6}

Headers ==
    [num_frames : 0..MaxFrames, num_steps : 0..MaxSteps,
     jiffy_rate : JiffySet, flags : {Unsequenced, Sequenced}]

\* The chunk kinds a blob may hold at most once.
Kinds == {"anih", "rate", "seq ", "fram"}

Saw(k) == [seen EXCEPT ![k] = Min(@ + 1, MaxSeen)]


(***************************************************************************)
(* AniFile::check_invariants: TRUE when it returns Ok.  The two warnings   *)
(* (eprintln!) change nothing and are left out.                            *)
(***************************************************************************)
CheckInvariantsNoSeqBound(a) ==
    /\ a.header.num_frames = Len(a.ico_frames)
    /\ ~(a.header.jiffy_rate = 0 /\ ~IsSome(a.rate) /\ Len(a.ico_frames) > 1)
    /\ ~(IsSome(a.rate) /\ Len(Unwrap(a.rate)) # a.header.num_steps)

CheckInvariants(a) ==
    LET hdr == a.header IN
    \* num_frames != ani.ico_frames.len()
    /\ hdr.num_frames = Len(a.ico_frames)
    \* jiffy_rate == 0 && rate.is_none() && ico_frames.len() > 1
    /\ ~(hdr.jiffy_rate = 0 /\ ~IsSome(a.rate) /\ Len(a.ico_frames) > 1)
    \* seq.data.iter().max() >= Some(&hdr.num_frames); None < Some(_)
    /\ ~(/\ IsSome(a.sequence)
         /\ IsSome(SeqMax(Unwrap(a.sequence)))
         /\ Unwrap(SeqMax(Unwrap(a.sequence))) >= hdr.num_frames)
    \* rate.data.len() != num_steps
    /\ ~(IsSome(a.rate) /\ Len(Unwrap(a.rate)) # hdr.num_steps)

(***************************************************************************)
(* AniFile::parse_list, the INFO and fram loops.  Each returns             *)
(* [ok |-> BOOLEAN, ani |-> AniFile].                                      *)
(***************************************************************************)
SubIds == {"INAM", "IART", "JUNK"}

RECURSIVE InfoLoop(_, _)
InfoLoop(a, subs) ==
    IF subs = <<>> THEN [ok |-> TRUE, ani |-> a]
    ELSE LET id == Head(subs) IN
         IF id = "INAM"
         THEN IF IsSome(a.title) THEN [ok |-> FALSE, ani |-> a]
              ELSE InfoLoop([a EXCEPT !.title = Some("T")], Tail(subs))
         ELSE IF id = "IART"
         THEN IF IsSome(a.author) THEN [ok |-> FALSE, ani |-> a]
              ELSE InfoLoop([a EXCEPT !.author = Some("A")], Tail(subs))
         ELSE [ok |-> FALSE, ani |-> a]

\* n 'icon' subchunks, the payload of the i-th is tagged i; junk: a subchunk
\* id other than 'icon' (or a truncated icon) is met inside the list.
FramLoop(a, n, junk) ==
    IF a.ico_frames # <<>> THEN [ok |-> FALSE, ani |-> a]      \* duplicate 'fram'
    ELSE IF junk THEN [ok |-> FALSE, ani |-> a]
    ELSE IF n = 0 THEN [ok |-> FALSE, ani |-> a]               \* chunks.is_empty()
    ELSE [ok |-> TRUE, ani |-> [a EXCEPT !.ico_frames = [i \in 1..n |-> i]]]

(***************************************************************************)
(* AniFile::from_blob as a state machine: one action per chunk the loop    *)
(* reads.  The blob is revealed chunk by chunk; `seen` counts what it held.*)
(***************************************************************************)
Fail ==
    /\ st' = "err"
    /\ ani' = AniFileDefault          \* the Err result carries no AniFile

Continue(a) ==
    /\ st' = "parsing"
    /\ ani' = a

InitAni ==
    /\ ani = AniFileDefault
    /\ buf = "none"
    /\ seen = [k \in Kinds |-> 0]
    /\ st = "start"
    /\ order = <<>>
    /\ icos = <<>>
    /\ cur = None
    /\ ld = "idle"

\* Lines 242-274: blob length cap, 'RIFF', riff_size <= blob.len(), 'ACON'.
ReadPrefix(lenOk, riffOk, sizeOk, aconOk) ==
    /\ st = "start"
    /\ buf' = IF lenOk /\ riffOk /\ sizeOk THEN (IF aconOk THEN "ACON" ELSE "XXXX")
              ELSE IF lenOk /\ riffOk THEN "size"
              ELSE IF lenOk THEN "XXXX" ELSE "none"
    /\ IF lenOk /\ riffOk /\ sizeOk /\ aconOk THEN Continue(ani) ELSE Fail
    /\ UNCHANGED <<seen, order, icos, cur, ld, jifVars, pixVars, callVars, saveVars, xcVars>>

CanRead == st = "parsing"

\* b"anih": duplicate check against the default header, then AniHeader::read_le.
ReadAnih(anih_size, header_size, h, eof) ==
    /\ CanRead
    /\ buf' = "anih"
    /\ seen' = Saw("anih")
    /\ IF ani.header # AniHeaderDefault THEN Fail
       ELSE IF eof \/ ~(anih_size = header_size /\ header_size = AnihSize) THEN Fail
       ELSE Continue([ani EXCEPT !.header = h])
    /\ UNCHANGED <<order, icos, cur, ld, jifVars, pixVars, callVars, saveVars, xcVars>>

\* b"rate"
ReadRate(data, eof) ==
    /\ CanRead
    /\ buf' = "rate"
    /\ seen' = Saw("rate")
    /\ IF IsSome(ani.rate) THEN Fail
       ELSE IF eof THEN Fail
       ELSE Continue([ani EXCEPT !.rate = Some(data)])
    /\ UNCHANGED <<order, icos, cur, ld, jifVars, pixVars, callVars, saveVars, xcVars>>

\* b"seq "
ReadSeq(data, eof) ==
    /\ CanRead
    /\ buf' = "seq "
    /\ seen' = Saw("seq ")
    /\ IF IsSome(ani.sequence) THEN Fail
       ELSE IF eof THEN Fail
       ELSE Continue([ani EXCEPT !.sequence = Some(data)])
    /\ UNCHANGED <<order, icos, cur, ld, jifVars, pixVars, callVars, saveVars, xcVars>>

\* b"LIST" with subtype 'INFO'; sizeOk: the three size checks of parse_list pass.
ReadListInfo(sizeOk, subs) ==
    /\ CanRead
    /\ buf' = "LIST"
    /\ seen' = seen
    /\ LET r == InfoLoop(ani, subs) IN
       IF sizeOk /\ r.ok THEN Continue(r.ani) ELSE Fail
    /\ UNCHANGED <<order, icos, cur, ld, jifVars, pixVars, callVars, saveVars, xcVars>>

\* b"LIST" with subtype 'fram'
ReadListFram(sizeOk, n, junk) ==
    /\ CanRead
    /\ buf' = "LIST"
    /\ seen' = Saw("fram")
    /\ LET r == FramLoop(ani, n, junk) IN
       IF sizeOk /\ r.ok THEN Continue(r.ani) ELSE Fail
    /\ UNCHANGED <<order, icos, cur, ld, jifVars, pixVars, callVars, saveVars, xcVars>>

\* b"LIST" with any other subtype, or any other fourcc: bail.
ReadUnknown(isList) ==
    /\ CanRead
    /\ buf' = IF isList THEN "LIST" ELSE "XXXX"
    /\ Fail
    /\ UNCHANGED <<seen, order, icos, cur, ld, jifVars, pixVars, callVars, saveVars, xcVars>>

\* cursor.position() >= blob.len(): leave the loop, check_invariants, Ok(ani).
EndOfBlob ==
    /\ st = "parsing"
    /\ IF CheckInvariants(ani) THEN st' = "ok" /\ ani' = ani ELSE Fail
    /\ UNCHANGED <<buf, seen, order, icos, cur, ld, jifVars, pixVars, callVars, saveVars, xcVars>>

\* What the blob can hold at each place.  A chunk whose read fails (short
\* blob, bad size field) fails whatever else it holds, so the failing inputs
\* are listed once each.
AnihInputs ==
    {<<AnihSize, AnihSize, h, FALSE>> : h \in Headers}
    \cup {<<AnihSize + 4, AnihSize, AniHeaderDefault, FALSE>>,
          <<AnihSize + 4, AnihSize + 4, AniHeaderDefault, FALSE>>,
          <<AnihSize, AnihSize, AniHeaderDefault, TRUE>>}
\* from_blob never looks at a rate entry, only at the table's length.
RateInputs == {<<d, FALSE>> : d \in SeqsUpTo({6}, MaxSteps)} \cup {<<<<>>, TRUE>>}
SeqInputs  == {<<d, FALSE>> : d \in SeqsUpTo(0..MaxFrames, MaxSteps)} \cup {<<<<>>, TRUE>>}
InfoInputs ==
    {<<TRUE, subs>> : subs \in {<<>>, <<"INAM", "IART">>, <<"IART", "IART">>, <<"JUNK">>}}
    \cup {<<FALSE, <<>> >>}
FramInputs == {<<TRUE, n, FALSE>> : n \in 0..MaxFrames}
              \cup {<<TRUE, 1, TRUE>>, <<FALSE, 1, FALSE>>}

Next ==
    \/ \E lenOk, riffOk, sizeOk, aconOk \in BOOLEAN : ReadPrefix(lenOk, riffOk, sizeOk, aconOk)
    \/ \E i \in AnihInputs : ReadAnih(i[1], i[2], i[3], i[4])
    \/ \E i \in RateInputs : ReadRate(i[1], i[2])
    \/ \E i \in SeqInputs : ReadSeq(i[1], i[2])
    \/ \E i \in InfoInputs : ReadListInfo(i[1], i[2])
    \/ \E i \in FramInputs : ReadListFram(i[1], i[2], i[3])
    \/ \E isList \in BOOLEAN : ReadUnknown(isList)
    \/ EndOfBlob

(***************************************************************************)
(* The jiffy -> millisecond conversion of from_ani_path (lines 284-289):   *)
(*     (f64::from(j) * 1000.0 / 60.0).round() as u32                       *)
(* A u32 does not fit the integers of the model checker, so 32-bit values  *)
(* and the wider intermediate results are little-endian sequences of       *)
(* 16-bit limbs:  <<l1, l2, l3>> stands for l1 + l2*2^16 + l3*2^32.        *)
(***************************************************************************)
LimbBase == 256 * 256

\* j * 1000 for j = <<lo, hi>>; exact in f64 (below 2^53).
LimbsTimes1000(j) ==
    LET t0 == j[1] * 1000
        t1 == j[2] * 1000 + (t0 \div LimbBase)
    IN  <<t0 % LimbBase, t1 % LimbBase, t1 \div LimbBase>>

\* p + n for a small n >= 0.
LimbsPlus(p, n) ==
    LET t0 == p[1] + n
        t1 == p[2] + (t0 \div LimbBase)
        t2 == p[3] + (t1 \div LimbBase)
    IN  <<t0 % LimbBase, t1 % LimbBase, t2>>

\* Long division of a three-limb number by 60: [q |-> limbs, r |-> remainder].
LimbsDiv60(p) ==
    LET q3 == p[3] \div 60
        t2 == (p[3] % 60) * LimbBase + p[2]
        q2 == t2 \div 60
        t1 == (t2 % 60) * LimbBase + p[1]
    IN  [q |-> <<t1 \div 60, q2, q3>>, r |-> t1 % 60]

U32MaxLimbs == <<LimbBase - 1, LimbBase - 1, 0>>

\* `as u32` on a non-negative f64 with an integer value: saturating.
SaturateU32(n) == IF n[3] > 0 THEN U32MaxLimbs ELSE n

JiffyToMsFloor(j) == SaturateU32(LimbsDiv60(LimbsTimes1000(j)).q)

\* The quotient j*1000/60 = j*50/3 is an integer or has fraction 1/3 or 2/3.
\* The f64 division is off by less than 2^-15 for j < 2^32, so f64::round
\* (half away from zero) sees the fraction on the side the exact quotient
\* has it: up when the remainder is at least 30 of 60.
JiffyToMsLimbs(j) ==
    LET d == LimbsDiv60(LimbsTimes1000(j))
        rounded == IF 2 * d.r >= 60 THEN LimbsPlus(d.q, 1) ELSE d.q
    IN  SaturateU32(rounded)

\* The same conversion on a small jiffy value, with a small result.
JiffyToMs(j) ==
    LET m == JiffyToMsLimbs(<<j % LimbBase, j \div LimbBase>>)
    IN  m[1] + m[2] * LimbBase

(***************************************************************************)
(* cursors/cursor_image.rs: CursorImage.  The pixel buffer is kept as its  *)
(* length and the identity `src` of the data it was decoded from.          *)
(***************************************************************************)
CursorImage(w, h, hx, hy, rgba, delay) ==
    [width |-> w, height |-> h, hotspot_x |-> hx, hotspot_y |-> hy,
     rgba |-> rgba, delay |-> delay]

Dimensions(img) == <<img.width, img.height>>

NominalSize(img) == Max(img.width, img.height)

\* CursorImage::scaled_to; scale_nearest / scale_box_average return a buffer
\* of dst_w * dst_h * 4 bytes.
ScaledTo(img, scale_factor, scale_type) ==
    LET up == scale_type = "Upscale"
        sw == IF up THEN img.width * scale_factor ELSE img.width \div scale_factor
        sh == IF up THEN img.height * scale_factor ELSE img.height \div scale_factor
        hx == IF up THEN img.hotspot_x * scale_factor ELSE img.hotspot_x \div scale_factor
        hy == IF up THEN img.hotspot_y * scale_factor ELSE img.hotspot_y \div scale_factor
    IN  CursorImage(sw, sh, hx, hy, [len |-> sw * sh * 4, src |-> img.rgba.src], img.delay)

(***************************************************************************)
(* cursors/generic_cursor.rs: GenericCursor.  A scale factor (an f64 in    *)
(* the code) is a fraction <<numerator, denominator>> in lowest terms: the *)
(* f64 quotients of small integers are equal exactly when the fractions    *)
(* are.                                                                    *)
(***************************************************************************)
RECURSIVE Gcd(_, _)
Gcd(a, b) == IF b = 0 THEN a ELSE Gcd(b, a % b)

Ratio(n, d) == LET g == Gcd(n, d) IN <<n \div g, d \div g>>

One == <<1, 1>>

Contains(s, x) == \E i \in 1..Len(s) : s[i] = x

HasConsistentDimensions(images) ==
    \/ images = <<>>
    \/ \A i \in 1..Len(images) : Dimensions(images[i]) = Dimensions(images[1])

GenericCursor(base, scaled, factors) ==
    [base |-> base, scaled |-> scaled, scale_factors |-> factors]

Ok(v)  == [res |-> "ok", val |-> v]
Err    == [res |-> "err", val |-> <<>>]
Panic  == [res |-> "panic", val |-> <<>>]

\* GenericCursor::new
GCNew(base_images) ==
    IF base_images = <<>> THEN Err
    ELSE IF ~HasConsistentDimensions(base_images) THEN Err
    ELSE Ok(GenericCursor(base_images, <<>>, <<One>>))

RECURSIVE ScaledFactors(_, _, _, _)
\* The loop of new_with_scaled over scaled_images: Err, or Ok(the factors).
ScaledFactors(groups, base_len, base_nominal, factors) ==
    IF groups = <<>> THEN Ok(factors)
    ELSE LET images == Head(groups) IN
         IF images = <<>> THEN Err
         ELSE IF Len(images) # base_len THEN Err
         ELSE IF ~HasConsistentDimensions(images) THEN Err
         ELSE LET f == Ratio(NominalSize(images[1]), base_nominal) IN
              IF Contains(factors, f) THEN Err
              ELSE ScaledFactors(Tail(groups), base_len, base_nominal, Append(factors, f))

\* GenericCursor::new_with_scaled
GCNewWithScaled(base_images, scaled_images) ==
    IF scaled_images = <<>> THEN GCNew(base_images)
    ELSE IF base_images = <<>> THEN Panic                  \* base_images[0]
    ELSE IF ~HasConsistentDimensions(base_images) THEN Err
    ELSE LET f == ScaledFactors(scaled_images, Len(base_images),
                                NominalSize(base_images[1]), <<>>)
         IN  IF f.res = "ok"
             THEN Ok(GenericCursor(base_images, scaled_images, f.val))
             ELSE Err

CanonScaleFactor(scale_factor, scale_type) ==
    IF scale_type = "Upscale" THEN <<scale_factor, 1>> ELSE Ratio(1, scale_factor)

GCAddScaleFront(g, scale_factor, scale_type) ==
    LET canon == CanonScaleFactor(scale_factor, scale_type) IN
    IF Contains(g.scale_factors, canon) THEN Err
    ELSE Ok(GenericCursor(
                g.base,
                <<[i \in 1..Len(g.base) |-> ScaledTo(g.base[i], scale_factor, scale_type)]>>
                    \o g.scaled,
                Append(g.scale_factors, canon)))

\* GenericCursor::add_scale on g: Err leaves g as it is.
GCAddScale(g, scale_factor, scale_type) ==
    LET canon == CanonScaleFactor(scale_factor, scale_type) IN
    IF Contains(g.scale_factors, canon) THEN Err
    ELSE Ok(GenericCursor(
                g.base,
                Append(g.scaled,
                       [i \in 1..Len(g.base) |-> ScaledTo(g.base[i], scale_factor, scale_type)]),
                Append(g.scale_factors, canon)))

RECURSIVE Flatten(_)
Flatten(ss) == IF ss = <<>> THEN <<>> ELSE Head(ss) \o Flatten(Tail(ss))

JoinedImagesScaledFirst(g) == Flatten(g.scaled) \o g.base

\* GenericCursor::joined_images: base, then the scaled groups flattened.
JoinedImages(g) == g.base \o Flatten(g.scaled)

(***************************************************************************)
(* GenericCursor::from_ani_path, from the AniFile that from_blob returned. *)
(* An IconDir is the sequence of the dimensions of its entries; every      *)
(* entry is a cursor with hotspot (0, 0).                                  *)
(***************************************************************************)
MaxLoadSteps == 2   \* num_steps and the table lengths of the AniFiles loaded

D16 == <<16, 16>>
D32 == <<32, 32>>
IcoChoices == {<<D16>>, <<D32>>, <<D32, D16>>, <<D16, D32>>}

\* (u32, u32) tuples compare lexicographically.
DimsLess(a, b) == a[1] < b[1] \/ (a[1] = b[1] /\ a[2] < b[2])

\* sequenced_icos as 1-based indices into ico_frames (lines 270-277).
PlayOrder(a) ==
    IF IsSome(a.sequence)
    THEN [k \in 1..Len(Unwrap(a.sequence)) |-> Unwrap(a.sequence)[k] + 1]
    ELSE [k \in 1..Len(a.ico_frames) |-> k]

\* delays_ms (lines 279-289)
DelaysMs(a) ==
    LET jiffies == IF IsSome(a.rate) THEN Unwrap(a.rate)
                   ELSE [k \in 1..a.header.num_steps |-> a.header.jiffy_rate]
    IN  [k \in 1..Len(jiffies) |-> JiffyToMs(jiffies[k])]

\* The images of one step: one CursorImage per entry of the step's IconDir.
StepImages(ic, frame, delay) ==
    [e \in 1..Len(ic[frame]) |->
        CursorImage(ic[frame][e][1], ic[frame][e][2], 0, 0,
                    [len |-> 4 * ic[frame][e][1] * ic[frame][e][2], src |-> <<frame, e>>],
                    delay)]

RECURSIVE AllImages(_, _, _, _)
\* The loop over sequenced_icos.iter().zip(delays_ms): it ends with the
\* shorter of the two.
AllImages(ic, ord, delays, k) ==
    IF k > Len(ord) \/ k > Len(delays) THEN <<>>
    ELSE StepImages(ic, ord[k], delays[k]) \o AllImages(ic, ord, delays, k + 1)

WithDims(images, d) == SelectSeq(images, LAMBDA img : Dimensions(img) = d)
WithoutDims(images, d) == SelectSeq(images, LAMBDA img : Dimensions(img) # d)

DimsOf(images) == {Dimensions(images[i]) : i \in 1..Len(images)}

Orderings(s) ==
    {[i \in 1..Len(s) |-> s[f[i]]] :
        f \in {g \in [1..Len(s) -> 1..Len(s)] : \A i, j \in 1..Len(s) : g[i] = g[j] => i = j}}

RECURSIVE SortedDims(_)
\* The distinct dimensions in ascending order.
SortedDims(ds) ==
    IF ds = {} THEN <<>>
    ELSE LET m == CHOOSE d \in ds : \A e \in ds \ {d} : DimsLess(d, e)
         IN  <<m>> \o SortedDims(ds \ {m})

\* sort_unstable_by_key(dimensions) and the grouping loop (lines 327-347):
\* one group per distinct dimensions, ascending; the sort is not stable, so
\* the order inside a group is any order.
Groupings(ungrouped) ==
    LET ds == SortedDims(DimsOf(ungrouped))
    IN  {gs \in [1..Len(ds) -> UNION {Orderings(WithDims(ungrouped, d)) : d \in DimsOf(ungrouped)}] :
            \A i \in 1..Len(ds) : gs[i] \in Orderings(WithDims(ungrouped, ds[i]))}

\* from_ani_path after from_blob: the results it can return for AniFile a
\* whose i-th ico frame decodes to ic[i].
FromAniPath(a, ic) ==
    LET ord    == PlayOrder(a)
        images == AllImages(ic, ord, DelaysMs(a), 1)
    IN  IF ord = <<>> THEN {Panic}                         \* sequenced_icos[0]
        ELSE LET base_dims == ic[ord[1]][1]
                 base      == WithDims(images, base_dims)
                 ungrouped == WithoutDims(images, base_dims)
             IN  IF ungrouped = <<>> THEN {GCNew(base)}
                 ELSE {GCNewWithScaled(base, scaled) : scaled \in Groupings(ungrouped)}

\* The AniFiles from_blob can return (check_invariants holds); the loader
\* reads neither flags nor title nor author.
LoadInputs ==
    {a \in [header : [num_frames : 0..MaxFrames, num_steps : 0..MaxLoadSteps,
                      jiffy_rate : JiffySet, flags : {Unsequenced}],
            title : {None}, author : {None},
            rate : {None} \cup {Some(d) : d \in SeqsUpTo(JiffySet, MaxLoadSteps)},
            sequence : {None} \cup {Some(d) : d \in SeqsUpTo(0..(MaxFrames - 1), MaxLoadSteps)},
            ico_frames : {[i \in 1..n |-> i] : n \in 0..MaxFrames}] :
        CheckInvariants(a)}

InitLoad ==
    /\ ani \in LoadInputs
    /\ buf = "none"
    /\ seen = [k \in Kinds |-> 0]
    /\ st = "ok"
    /\ order = <<>>
    /\ icos = <<>>
    /\ cur = None
    /\ ld = "idle"

Load(ic) ==
    /\ st = "ok"
    /\ ld = "idle"
    /\ icos' = ic
    /\ order' = PlayOrder(ani)
    /\ \E r \in FromAniPath(ani, ic) :
          /\ ld' = r.res
          /\ cur' = IF r.res = "ok" THEN Some(r.val) ELSE None
    /\ UNCHANGED <<ani, buf, seen, st, jifVars, pixVars, callVars, saveVars, xcVars>>

NextLoad == \E ic \in [1..Len(ani.ico_frames) -> IcoChoices] : Load(ic)

(***************************************************************************)
(* formats/xcursor.rs: pre-multiplication.  Bytes are 0..255; the product  *)
(* is a u16 and the result is cast back to u8.                             *)
(***************************************************************************)
U8(n)  == n % 256
U16(n) == n % (256 * 256)

PreAlphaFormula128(c, a) ==
    LET prod == U16(c * a) IN U8(U16(prod + 128) \div 255)

\* pre_alpha_formula
PreAlphaFormula(c, a) ==
    LET prod == U16(c * a) IN U8(U16(prod + 127) \div 255)

\* pixel.swap(0, 2) on one 4-byte chunk
Swap02(px) == <<px[3], px[2], px[1], px[4]>>

\* The body of the loop of to_pre_argb on one 4-byte chunk.
PreArgbPixel(px) ==
    LET s == Swap02(px)
    IN  <<PreAlphaFormula(s[1], s[4]), PreAlphaFormula(s[2], s[4]),
          PreAlphaFormula(s[3], s[4]), s[4]>>

RECURSIVE ToPreArgb(_)
\* to_pre_argb: every whole 4-byte chunk is rewritten, a remainder is left.
ToPreArgb(rgba) ==
    IF Len(rgba) < 4 THEN rgba
    ELSE PreArgbPixel(SubSeq(rgba, 1, 4)) \o ToPreArgb(SubSeq(rgba, 5, Len(rgba)))

\* Every (channel, alpha) pair of bytes occurs in each of the three channels.
PixelInputs ==
    {<<r, (r + 85) % 256, (r + 170) % 256, a>> : r \in 0..255, a \in 0..255}

InitPixIn == pixel \in PixelInputs /\ pre = None

ConvertPixel ==
    /\ pre = None
    /\ pre' = Some(ToPreArgb(pixel))
    /\ UNCHANGED <<pixel, aniVars, jifVars, xcVars, callVars, saveVars>>

NextPix == ConvertPixel

(***************************************************************************)
(* formats/xcursor.rs: the Xcursor model and its serialisation.            *)
(***************************************************************************)
SizeXcursor == 16       \* sizes::XCURSOR
SizeComment == 20       \* sizes::COMMENT
SizeImage   == 36       \* sizes::IMAGE
SizeToc     == 12       \* sizes::TOC
MaxDimension == 2048    \* largest width and height an image chunk may have
MaxDelay == 60000       \* largest delay an image chunk may have

\* GenericCursor::num_images: the number of frames over base and all groups.
NumImages(g) == Len(g.base) + Len(Flatten(g.scaled))

TableOfContents(type, subtype, position) ==
    [type |-> type, subtype |-> subtype, position |-> position]

\* CommentRole::Other
RoleOther == 3

\* CommentChunk::new
CommentChunkNew(string, subtype, position) ==
    [chunk |-> [role |-> subtype, string |-> string],
     toc   |-> TableOfContents("Comment", subtype, position)]

\* impl From<&CursorImage> for ImageChunk: pod_collect_to_vec packs the
\* bytes into u32 words, the last one zero-padded.
ImageChunkFrom(image) ==
    [nominal_size |-> NominalSize(image),
     width |-> image.width, height |-> image.height,
     hotspot_x |-> image.hotspot_x, hotspot_y |-> image.hotspot_y,
     delay |-> image.delay,
     argb |-> [len |-> (image.rgba.len + 3) \div 4, src |-> image.rgba.src]]

\* ImageChunk::new
ImageChunkNew(image, position) ==
    [chunk |-> ImageChunkFrom(image),
     toc   |-> TableOfContents("Image", NominalSize(image), position)]

ImageChunkSizeNoHeader(image) == image.rgba.len

\* image_chunk_size in Xcursor::new
ImageChunkSize(image) == SizeImage + image.rgba.len

RECURSIVE ImageLoop(_, _, _, _)
\* The loop of Xcursor::new over joined_images().
ImageLoop(joined, position, toc, images) ==
    IF joined = <<>> THEN [toc |-> toc, images |-> images]
    ELSE LET n == ImageChunkNew(Head(joined), position)
         IN  ImageLoop(Tail(joined), position + ImageChunkSize(Head(joined)),
                       Append(toc, n.toc), Append(images, n.chunk))

\* Xcursor::new for a cursor whose info() is inf: None, or Some(the length in
\* bytes of the comment string).
XcursorNew(cursor, inf) ==
    LET num_toc == NumImages(cursor) + (IF IsSome(inf) THEN 1 ELSE 0)
        chunks_offset == SizeXcursor + num_toc * SizeToc
        c == IF IsSome(inf)
             THEN CommentChunkNew(Unwrap(inf), RoleOther, chunks_offset)
             ELSE None
        position == IF IsSome(inf)
                    THEN chunks_offset + SizeComment + Unwrap(inf)
                    ELSE chunks_offset
        l == ImageLoop(JoinedImages(cursor), position,
                       IF IsSome(inf) THEN <<c.toc>> ELSE <<>>, <<>>)
    IN  [header |-> [toc |-> l.toc],
         comment |-> IF IsSome(inf) THEN Some(c.chunk) ELSE None,
         images |-> l.images]

\* The bytes binrw writes for each struct: every u32 field and calc field is
\* 4 bytes, the magic is 4 bytes.
HeaderBytes(h)  == 4 + 4 + 4 + 4 + Len(h.toc) * (4 + 4 + 4)
CommentBytes(c) == 4 + 4 + 4 + 4 + 4 + c.string
ImageBytes(i)   == 4 + 4 + 4 + 4 + 4 + 4 + 4 + 4 + 4 + 4 * i.argb.len

ImageAssertsNoDelay(i) ==
    /\ i.width # 0 /\ i.width <= MaxDimension
    /\ i.height # 0 /\ i.height <= MaxDimension
    /\ i.hotspot_x <= i.width
    /\ i.hotspot_y <= i.height
    /\ i.argb.len = i.width * i.height

\* The #[bw(assert(..))] conditions of ImageChunk
ImageAsserts(i) ==
    /\ i.width # 0 /\ i.width <= MaxDimension
    /\ i.height # 0 /\ i.height <= MaxDimension
    /\ i.hotspot_x <= i.width
    /\ i.hotspot_y <= i.height
    /\ i.delay <= MaxDelay
    /\ i.argb.len = i.width * i.height

RECURSIVE WriteImages(_, _, _)
\* Vec<ImageChunk> written in order; the first failed assert ends the write.
WriteImages(images, offset, chunks) ==
    IF images = <<>> THEN [ok |-> TRUE, chunks |-> chunks]
    ELSE IF ~ImageAsserts(Head(images)) THEN [ok |-> FALSE, chunks |-> chunks]
    ELSE WriteImages(Tail(images), offset + ImageBytes(Head(images)),
                     Append(chunks, [kind |-> "Image", offset |-> offset,
                                     size |-> ImageBytes(Head(images)),
                                     body |-> Head(images)]))

\* Xcursor::write (derived): the struct assert, then header, comment and
\* images in field order.  The result lists the chunks written in full, with
\* the offset of their first byte.
WriteXcursor(x) ==
    IF Len(x.header.toc) # Len(x.images) + (IF IsSome(x.comment) THEN 1 ELSE 0)
    THEN [ok |-> FALSE, chunks |-> <<>>]
    ELSE LET start == HeaderBytes(x.header)
             cs == IF IsSome(x.comment)
                   THEN <<[kind |-> "Comment", offset |-> start,
                           size |-> CommentBytes(Unwrap(x.comment)),
                           body |-> Unwrap(x.comment)]>>
                   ELSE <<>>
             after == IF IsSome(x.comment)
                      THEN start + CommentBytes(Unwrap(x.comment)) ELSE start
         IN  WriteImages(x.images, after, cs)

(***************************************************************************)
(* A cursor built through the constructors, scaled, converted and written. *)
(***************************************************************************)
MaxBaseFrames == 2   \* frames of a base and of a given scaled group
MaxGivenGroups == 2  \* scaled groups handed to new_with_scaled
MaxGroups == 2       \* scaled groups a cursor may reach through add_scale
MaxFactor == 3       \* scale factors 1..MaxFactor are tried

DimsSet == {<<1, 1>>, <<2, 1>>, <<2048, 1>>}

\* CursorImage::new accepts these: non-zero dimensions, a hotspot inside
\* them, width * height * 4 bytes; the delay is not limited.
FrameKinds ==
    {[hot |-> "origin", delay |-> 0], [hot |-> "corner", delay |-> 100],
     [hot |-> "origin", delay |-> 60001]}

Frame(d, k, id) ==
    CursorImage(d[1], d[2],
                IF k.hot = "corner" THEN d[1] ELSE 0,
                IF k.hot = "corner" THEN d[2] ELSE 0,
                [len |-> d[1] * d[2] * 4, src |-> id], k.delay)

Plain == [hot |-> "origin", delay |-> 0]

\* n frames of dimensions d, the first of kind k, the i-th with pixel data
\* <<i, 0>>; and one base whose frames differ in dimensions.
BaseChoices ==
    {[i \in 1..n |-> Frame(d, IF i = 1 THEN k ELSE Plain, <<i, 0>>)] :
        n \in 1..MaxBaseFrames, d \in DimsSet, k \in FrameKinds}
    \cup {<<Frame(<<1, 1>>, Plain, <<1, 0>>), Frame(<<2, 1>>, Plain, <<2, 0>>)>>}

\* A scaled group: n frames of one size, or two frames of two sizes.
GroupDims == {<<1, 1>>, <<2, 2>>, <<4, 2>>}

GroupChoices ==
    {[i \in 1..n |-> Frame(d, Plain, <<i, d[1] * d[2]>>)] :
        n \in 1..MaxBaseFrames, d \in GroupDims}
    \cup {<<Frame(<<2, 2>>, Plain, <<1, 4>>), Frame(<<4, 2>>, Plain, <<2, 8>>)>>}

InfoChoices == {None, Some(5)}

NewCursor(base_images, inf) ==
    /\ gc = None
    /\ LET r == GCNew(base_images)
       IN  /\ gc' = IF r.res = "ok" THEN Some(r.val) ELSE None
           /\ info' = IF r.res = "ok" THEN inf ELSE None
    /\ UNCHANGED <<lastAdd, xcur, file, aniVars, jifVars, pixVars, callVars, saveVars>>

NewCursorWithScaled(base_images, scaled_images, inf) ==
    /\ gc = None
    /\ LET r == GCNewWithScaled(base_images, scaled_images)
       IN  /\ gc' = IF r.res = "ok" THEN Some(r.val) ELSE None
           /\ info' = IF r.res = "ok" THEN inf ELSE None
    /\ UNCHANGED <<lastAdd, xcur, file, aniVars, jifVars, pixVars, callVars, saveVars>>

AddScale(scale_factor, scale_type) ==
    /\ IsSome(gc)
    /\ xcur = None
    /\ Len(Unwrap(gc).scaled) < MaxGroups
    /\ LET r == GCAddScale(Unwrap(gc), scale_factor, scale_type)
       IN  /\ gc' = IF r.res = "ok" THEN Some(r.val) ELSE gc
           /\ lastAdd' = r.res
    /\ UNCHANGED <<info, xcur, file, aniVars, jifVars, pixVars, callVars, saveVars>>

BuildXcursor ==
    /\ IsSome(gc)
    /\ xcur = None
    /\ xcur' = Some(XcursorNew(Unwrap(gc), info))
    /\ UNCHANGED <<gc, info, lastAdd, file, aniVars, jifVars, pixVars, callVars, saveVars>>

Write ==
    /\ IsSome(xcur)
    /\ file = None
    /\ file' = Some(WriteXcursor(Unwrap(xcur)))
    /\ UNCHANGED <<gc, info, lastAdd, xcur, aniVars, jifVars, pixVars, callVars, saveVars>>

\* A call of GenericCursor::new
CallNew ==
    /\ gc = None
    /\ \E b \in BaseChoices, inf \in InfoChoices : NewCursor(b, inf)

\* A call of GenericCursor::new_with_scaled
CallNewWithScaled ==
    /\ gc = None
    /\ \E b \in BaseChoices, sc \in SeqsUpTo(GroupChoices, MaxGivenGroups) \ {<<>>},
          inf \in InfoChoices : NewCursorWithScaled(b, sc, inf)

NextXcur ==
    \/ CallNew
    \/ CallNewWithScaled
    \/ \E k \in 1..MaxFactor, t \in {"Upscale", "Downscale"} : AddScale(k, t)
    \/ BuildXcursor
    \/ Write

(***************************************************************************)
(* cursors/cursor_image.rs: CursorImage::new on 32-bit arguments.  A u32   *)
(* is <<lo, hi>> in 16-bit limbs; an exact product and a usize length are  *)
(* sequences of five limbs.                                                *)
(***************************************************************************)
\* x * y for 16-bit x and y, as <<lo, hi>>, without leaving 31 bits.
Mul16(x, y) ==
    LET x0 == x % 256
        x1 == x \div 256
        p  == x1 * y                          \* times 256
        low == x0 * y + (p % 256) * 256
    IN  <<low % LimbBase, (p \div 256) + (low \div LimbBase)>>

\* The exact product of two u32 values, four limbs.
MulExact(a, b) ==
    LET ll == Mul16(a[1], b[1])
        lh == Mul16(a[1], b[2])
        hl == Mul16(a[2], b[1])
        hh == Mul16(a[2], b[2])
        s2 == ll[2] + lh[1] + hl[1]
        s3 == lh[2] + hl[2] + hh[1] + (s2 \div LimbBase)
        s4 == hh[2] + (s3 \div LimbBase)
    IN  <<ll[1], s2 % LimbBase, s3 % LimbBase, s4>>

\* Four times a four-limb value, five limbs.
Times4(n) ==
    LET s1 == 4 * n[1]
        s2 == 4 * n[2] + (s1 \div LimbBase)
        s3 == 4 * n[3] + (s2 \div LimbBase)
        s4 == 4 * n[4] + (s3 \div LimbBase)
    IN  <<s1 % LimbBase, s2 % LimbBase, s3 % LimbBase, s4 % LimbBase, s4 \div LimbBase>>

\* width * height * 4 in unbounded arithmetic
Exact4wh(w, h) == Times4(MulExact(w, h))

FitsU32(n) == n[3] = 0 /\ n[4] = 0 /\ n[5] = 0

\* The low 32 bits: what wrapping u32 arithmetic leaves.
WrapU32(n) == <<n[1], n[2]>>

GtU32(a, b) == a[2] > b[2] \/ (a[2] = b[2] /\ a[1] > b[1])

ZeroU32 == <<0, 0>>

\* CursorImage::new(width, height, hotspot_x, hotspot_y, rgba, delay) for a
\* buffer of len bytes.  width * height * 4 is u32 arithmetic: where it
\* overflows, a build with overflow checks panics and a build without them
\* goes on with the low 32 bits.
CursorImageNew(width, height, hotspot_x, hotspot_y, len, delay, overflow_checks) ==
    IF width = ZeroU32 THEN Err
    ELSE IF height = ZeroU32 THEN Err
    ELSE IF GtU32(hotspot_x, width) THEN Err
    ELSE IF GtU32(hotspot_y, height) THEN Err
    ELSE IF ~FitsU32(Exact4wh(width, height)) /\ overflow_checks THEN Panic
    ELSE IF ~FitsU32(len) THEN Err                               \* try_into()?
    ELSE IF WrapU32(Exact4wh(width, height)) # WrapU32(len) THEN Err
    ELSE Ok([width |-> width, height |-> height, hotspot_x |-> hotspot_x,
             hotspot_y |-> hotspot_y, len |-> len, delay |-> delay])

U32Samples ==
    {<<0, 0>>, <<1, 0>>, <<2, 0>>, <<3, 0>>, <<32768, 0>>, <<0, 1>>, <<0, 32768>>,
     <<LimbBase - 1, LimbBase - 1>>}

LenSamples(w, h) ==
    {<<0, 0, 0, 0, 0>>, <<4, 0, 0, 0, 0>>, <<8, 0, 0, 0, 0>>, Exact4wh(w, h)}

NewInputs ==
    UNION {{[width |-> w, height |-> h, hotspot_x |-> hx, hotspot_y |-> hy,
             len |-> l, delay |-> 0, overflow_checks |-> oc] :
               hx \in {<<0, 0>>, w, <<3, 0>>}, hy \in {<<0, 0>>, <<1, 0>>},
               oc \in BOOLEAN, l \in LenSamples(w, h)} :
           w \in U32Samples, h \in U32Samples}

InitNewIn ==
    /\ arg \in {Some(a) : a \in NewInputs}
    /\ ret = None

CallCursorImageNew ==
    /\ IsSome(arg) /\ ret = None
    /\ LET a == Unwrap(arg) IN
       ret' = Some(CursorImageNew(a.width, a.height, a.hotspot_x, a.hotspot_y,
                                  a.len, a.delay, a.overflow_checks))
    /\ UNCHANGED <<arg, aniVars, jifVars, pixVars, xcVars, saveVars>>

NextNew == CallCursorImageNew

(***************************************************************************)
(* cursors/cursor_image.rs: CursorImages::try_from.                        *)
(***************************************************************************)
MaxVecLen == 3

\* try_from without the single-frame branch
CursorImagesTryFromNoSingle(vec) ==
    IF Len(vec) = 0 THEN Err
    ELSE IF \E i \in 1..Len(vec) : Dimensions(vec[i]) # Dimensions(vec[1]) THEN Err
    ELSE IF \E i \in 1..Len(vec) : vec[i].delay = 0 THEN Err
    ELSE Ok([inner |-> vec])

CursorImagesTryFrom(vec) ==
    IF Len(vec) = 0 THEN Err
    ELSE IF Len(vec) = 1
         THEN IF vec[1].delay # 0 THEN Err ELSE Ok([inner |-> vec])
    ELSE IF \E i \in 1..Len(vec) : Dimensions(vec[i]) # Dimensions(vec[1]) THEN Err
    ELSE IF \E i \in 1..Len(vec) : vec[i].delay = 0 THEN Err
    ELSE Ok([inner |-> vec])

VecFrames ==
    {CursorImage(d[1], d[2], 0, 0, [len |-> 4 * d[1] * d[2], src |-> 0], t) :
        d \in {<<1, 1>>, <<2, 1>>}, t \in {0, 100}}

InitTryFromIn ==
    /\ arg \in {Some(v) : v \in SeqsUpTo(VecFrames, MaxVecLen)}
    /\ ret = None

CallTryFrom ==
    /\ IsSome(arg) /\ ret = None
    /\ ret' = Some(CursorImagesTryFrom(Unwrap(arg)))
    /\ UNCHANGED <<arg, aniVars, jifVars, pixVars, xcVars, saveVars>>

NextTryFrom == CallTryFrom

(***************************************************************************)
(* formats/inf.rs: the path list of parse_inf_installer.  A field of the   *)
(* expanded registry line, after the four leading fields, is               *)
(* [dir |-> whether it holds a backslash, file |-> the text after the last *)
(* backslash, quote |-> whether it ends with a double quote].              *)
(***************************************************************************)
MaxPaths == 18

NumMapped == 15

IndexToCursorTypeTable ==
    <<"Arrow", "Help", "LeftPtrWatch", "Watch", "Crosshair", "Text", "Pencil",
      "Forbidden", "NsResize", "EwResize", "NwseResize", "NeswResize", "Move",
      "CenterPtr", "Hand">>

\* index_to_cursor_type(index), index counted from 0
IndexToCursorType(index) ==
    IF index < NumMapped THEN IndexToCursorTypeTable[index + 1] ELSE "unreachable"

\* s.rsplit_once('\\').map(|s| s.1): the file name with its quote, if any
FileOf(field) == [name |-> field.file, quote |-> field.quote]

\* The part of parse_inf_installer from `let mut paths` on.  With no path
\* field, paths.len() - 1 underflows: a panic with overflow checks, and
\* otherwise an index out of range, which is a panic too.
MapPaths(fields) ==
    IF \E i \in 1..Len(fields) : ~fields[i].dir THEN Err
    ELSE IF Len(fields) = 0 THEN Panic
    ELSE IF ~fields[Len(fields)].quote THEN Err
    ELSE LET paths == [i \in 1..Len(fields) |->
                         IF i = Len(fields)
                         THEN [name |-> fields[i].file, quote |-> FALSE]
                         ELSE FileOf(fields[i])]
         IN  Ok([i \in 1..Min(Len(fields), NumMapped) |->
                    [type |-> IndexToCursorType(i - 1), path |-> paths[i]]])

\* n fields named by a rotation of 0..n-1; field `bare`, if any, has no
\* backslash; the last field ends with the closing quote or does not.
PathFields(n, shift, bare, closed) ==
    [i \in 1..n |-> [dir |-> i # bare, file |-> (i - 1 + shift) % MaxPaths,
                     quote |-> (i = n /\ closed)]]

InitPathsIn ==
    /\ arg \in {Some(PathFields(n, s, b, c)) :
                   n \in 0..MaxPaths, s \in 0..1, b \in 0..MaxPaths, c \in BOOLEAN}
    /\ ret = None

CallMapPaths ==
    /\ IsSome(arg) /\ ret = None
    /\ ret' = Some(MapPaths(Unwrap(arg)))
    /\ UNCHANGED <<arg, aniVars, jifVars, pixVars, xcVars, saveVars>>

NextPaths == CallMapPaths

(***************************************************************************)
(* formats/inf.rs: expand.  A string is a sequence of one-character        *)
(* strings; subs is a function from keys, written with their percent       *)
(* signs as expand_reg stores them, to values.                             *)
(***************************************************************************)
MaxValueLen == 5

Digits == {"0", "1", "2", "3", "4", "5", "6", "7", "8", "9"}

\* value.match_indices('%'): the positions of '%', ascending
MatchIndices(value) ==
    LET F[i \in 0..Len(value)] ==
            IF i = 0 THEN <<>>
            ELSE IF value[i] = "%" THEN Append(F[i - 1], i) ELSE F[i - 1]
    IN  F[Len(value)]

\* expanded_value.replace_range(start..=end, sub_value), positions from 1
ReplaceRange(s, start, end, sub_value) ==
    SubSeq(s, 1, start - 1) \o sub_value \o SubSeq(s, end + 1, Len(s))

\* the lookup chain of expand with the table consulted last
SubValueTableLast(sub_key, subs) ==
    IF sub_key = <<"%", "%">> THEN Some(<<"%">>)
    ELSE IF \A i \in 1..Len(sub_key) : sub_key[i] \in Digits \cup {"%"} THEN Some(sub_key)
    ELSE IF sub_key \in DOMAIN subs THEN Some(subs[sub_key])
    ELSE None

\* subs.get(&sub_key).or_else(%% -> %).or_else(digits -> itself)
SubValue(sub_key, subs) ==
    IF sub_key \in DOMAIN subs THEN Some(subs[sub_key])
    ELSE IF sub_key = <<"%", "%">> THEN Some(<<"%">>)
    ELSE IF \A i \in 1..Len(sub_key) : sub_key[i] \in Digits \cup {"%"} THEN Some(sub_key)
    ELSE None

\* The for loop of expand over the chunks of two positions, from chunk k.
RECURSIVE ExpandLoop(_, _, _, _, _)
ExpandLoop(value, subs, sub_ranges, k, expanded_value) ==
    IF 2 * k > Len(sub_ranges) THEN Ok(expanded_value)
    ELSE LET start == sub_ranges[2 * k - 1]
             end == sub_ranges[2 * k]
             sub_key == SubSeq(value, start, end)
             sub_value == SubValue(sub_key, subs)
             offset == Len(expanded_value) - Len(value)
         IN  IF sub_value = None THEN Err
             ELSE ExpandLoop(value, subs, sub_ranges, k + 1,
                             ReplaceRange(expanded_value, start + offset, end + offset,
                                          Unwrap(sub_value)))

Expand(value, subs) ==
    LET sub_ranges == MatchIndices(value)
    IN  IF Len(sub_ranges) % 2 # 0 THEN Err
        ELSE ExpandLoop(value, subs, sub_ranges, 1, value)

ValueChars == {"%", "a", "1"}

NoSubs == [k \in {} |-> <<>>]

OneSub(key, v) == [k \in {key} |-> v]

SubsChoices ==
    {NoSubs,
     OneSub(<<"%", "a", "%">>, <<"x", "y">>),
     OneSub(<<"%", "a", "%">>, <<>>),
     OneSub(<<"%", "a", "%">>, <<"%">>),
     OneSub(<<"%", "a", "a", "%">>, <<"x">>),
     OneSub(<<"%", "1", "%">>, <<"x">>)}

InitExpandIn ==
    /\ arg \in {Some([value |-> v, subs |-> s]) :
                   v \in SeqsUpTo(ValueChars, MaxValueLen), s \in SubsChoices}
    /\ ret = None

CallExpand ==
    /\ IsSome(arg) /\ ret = None
    /\ ret' = Some(Expand(Unwrap(arg).value, Unwrap(arg).subs))
    /\ UNCHANGED <<arg, aniVars, jifVars, pixVars, xcVars, saveVars>>

NextExpand == CallExpand

(***************************************************************************)
(* themes/theme.rs: CursorTheme::save_as_x11_theme on a unix build.  fs is *)
(* the theme directory: fs.cursors maps a name inside cursors/ to          *)
(* Absent, RegularFile or Link(target), fs.index is index.theme.  Each     *)
(* cursor of the theme is one task of the parallel iterator.               *)
(***************************************************************************)
\* TypedCursor::aliases of the theme's cursors: the file name, then the links
Aliases == <<(<<"a", "a1", "a2">>), (<<"b", "b1">>)>>

Cursors == 1..Len(Aliases)

LinkNames == UNION {{Aliases[i][k] : k \in 2..Len(Aliases[i])} : i \in Cursors}

FileNames == {Aliases[i][1] : i \in Cursors}

Absent == [kind |-> "absent", target |-> ""]

RegularFile == [kind |-> "file", target |-> ""]

Link(target) == [kind |-> "link", target |-> target]

\* what may lie in cursors/ under a link name before the save
OldEntries == {Absent, RegularFile} \cup {Link(f) : f \in FileNames}

TaskStart == [pc |-> "start", next |-> 2, wrote |-> FALSE, made |-> {}]

\* a link may be made at any time
LinkAllowedAnytime(t) == t.pc \in {"start", "links"}

\* the for loop over aliases[1..] runs after inner.save_as_xcursor(..)? returned
LinkAllowed(t) == t.pc = "links"

\* try_for_each(..)? lets the function go on only if every task returned Ok
AllSaved(tasks) == \A i \in Cursors : tasks[i].pc = "done"

\* the state of a task after its step on alias number t.next
AfterAlias(i, t) ==
    IF t.next >= Len(Aliases[i]) THEN [t EXCEPT !.pc = "done"]
    ELSE [t EXCEPT !.pc = "links", !.next = t.next + 1]

InitSaveIn ==
    /\ fs \in {Some([cursors |-> c, index |-> Absent]) :
                  c \in {g \in [FileNames \cup LinkNames -> OldEntries] :
                            \A f \in FileNames : g[f] \in {Absent, RegularFile}}}
    /\ task = Some([i \in Cursors |-> TaskStart])
    /\ theme = "idle"

\* fs::create_dir_all(&cursor_dir)?
CreateDirAll(ok) ==
    /\ theme = "idle" /\ IsSome(fs)
    /\ theme' = IF ok THEN "saving" ELSE "failed"
    /\ UNCHANGED <<fs, task, aniVars, jifVars, pixVars, xcVars, callVars>>

\* save_as_xcursor up to the `?` after the file: cursor_dir was just created,
\* so is_dir() holds; the Xcursor file is written under aliases[0] or fails.
SaveFile(i, ok) ==
    /\ theme = "saving" /\ Unwrap(task)[i].pc = "start"
    /\ IF ok
       THEN /\ fs' = Some([Unwrap(fs) EXCEPT !.cursors[Aliases[i][1]] = RegularFile])
            /\ task' = Some([Unwrap(task) EXCEPT
                               ![i] = IF Len(Aliases[i]) = 1
                                      THEN [@ EXCEPT !.pc = "done", !.wrote = TRUE]
                                      ELSE [@ EXCEPT !.pc = "links", !.wrote = TRUE]])
       ELSE /\ fs' = fs
            /\ task' = Some([Unwrap(task) EXCEPT ![i].pc = "failed"])
    /\ UNCHANGED <<theme, aniVars, jifVars, pixVars, xcVars, callVars>>

\* One turn of the loop: unix::fs::symlink(aliases[0], dir.join(symlink)).
\* An existing entry gives AlreadyExists, which is taken as success; on a
\* free name the link is made or the call fails with another error.
MakeLink(i, ok) ==
    /\ theme = "saving" /\ LinkAllowed(Unwrap(task)[i])
    /\ LET t == Unwrap(task)[i]
           name == Aliases[i][t.next]
       IN  IF Unwrap(fs).cursors[name] # Absent
           THEN /\ ok
                /\ fs' = fs
                /\ task' = Some([Unwrap(task) EXCEPT ![i] = AfterAlias(i, t)])
           ELSE IF ok
           THEN /\ fs' = Some([Unwrap(fs) EXCEPT !.cursors[name] = Link(Aliases[i][1])])
                /\ task' = Some([Unwrap(task) EXCEPT
                                   ![i] = AfterAlias(i, [t EXCEPT !.made = @ \cup {name}])])
           ELSE /\ fs' = fs
                /\ task' = Some([Unwrap(task) EXCEPT ![i].pc = "failed"])
    /\ UNCHANGED <<theme, aniVars, jifVars, pixVars, xcVars, callVars>>

\* try_for_each stops handing out items once one has failed
SkipTask(i) ==
    /\ theme = "saving" /\ Unwrap(task)[i].pc = "start"
    /\ \E j \in Cursors : Unwrap(task)[j].pc = "failed"
    /\ task' = Some([Unwrap(task) EXCEPT ![i].pc = "skipped"])
    /\ UNCHANGED <<fs, theme, aniVars, jifVars, pixVars, xcVars, callVars>>

\* try_for_each(..)? returns when no task is running
Join ==
    /\ theme = "saving"
    /\ \A i \in Cursors : Unwrap(task)[i].pc \in {"done", "failed", "skipped"}
    /\ theme' = IF AllSaved(Unwrap(task)) THEN "index" ELSE "failed"
    /\ UNCHANGED <<fs, task, aniVars, jifVars, pixVars, xcVars, callVars>>

\* File::create(index.theme)? and the writeln!s
WriteIndex(created, written) ==
    /\ theme = "index"
    /\ fs' = IF created THEN Some([Unwrap(fs) EXCEPT !.index = RegularFile]) ELSE fs
    /\ theme' = IF created /\ written THEN "done" ELSE "failed"
    /\ UNCHANGED <<task, aniVars, jifVars, pixVars, xcVars, callVars>>

NextSave ==
    \/ \E ok \in BOOLEAN : CreateDirAll(ok)
    \/ \E i \in Cursors, ok \in BOOLEAN : SaveFile(i, ok)
    \/ \E i \in Cursors, ok \in BOOLEAN : MakeLink(i, ok)
    \/ \E i \in Cursors : SkipTask(i)
    \/ Join
    \/ \E created, written \in BOOLEAN : WriteIndex(created, written)

(***************************************************************************)
(* formats/ani.rs: the size checks of from_blob and parse_list, in bytes.  *)
(***************************************************************************)
MaxChunkSize == 2097152

\* the cap on a 'fram' list in the earlier decoder (cursors/ani.rs)
MaxFramSize == 1048576

\* from_blob's check of the blob length, then parse_list from the list size
\* (read at position - 8) to the match on list_id: Err on a refusal, and
\* otherwise the list whose payload is read next, up to `end`.
ListSizeChecks(blob_len, position, list_size, list_id) ==
    IF blob_len > MaxChunkSize THEN Err
    ELSE IF list_size < 4 THEN Err                              \* checked_sub(4)
    ELSE IF list_size - 4 > MaxChunkSize THEN Err
    ELSE IF position + (list_size - 4) > blob_len THEN Err
    ELSE IF list_id \notin {"INFO", "fram"} THEN Err
    ELSE Ok([list_id |-> list_id, end |-> position + (list_size - 4)])

BlobLens == {64, MaxFramSize + 64, MaxChunkSize - 1, MaxChunkSize, MaxChunkSize + 1}

ListPositions == {20, 64}

ListSizes ==
    {0, 3, 4, 12, 44, MaxFramSize + 3, MaxFramSize + 4, MaxFramSize + 5,
     MaxChunkSize - 60, MaxChunkSize + 4, MaxChunkSize + 5, 2147483647}

InitSizesIn ==
    /\ arg \in {Some([blob_len |-> b, position |-> p, list_size |-> s, list_id |-> id]) :
                   b \in BlobLens, p \in ListPositions, s \in ListSizes,
                   id \in {"INFO", "fram", "JUNK"}}
    /\ ret = None

CallListSizeChecks ==
    /\ IsSome(arg) /\ ret = None
    /\ LET a == Unwrap(arg) IN
       ret' = Some(ListSizeChecks(a.blob_len, a.position, a.list_size, a.list_id))
    /\ UNCHANGED <<arg, aniVars, jifVars, pixVars, xcVars, saveVars>>

NextSizes == CallListSizeChecks

(***************************************************************************)
(* formats/ani.rs: parse_list by cursor positions.  The bytes after the    *)
(* list id are given as the reader meets them: a sequence of subchunks,    *)
(* each [id, size, len], where size is the subchunk's size field and len   *)
(* the number of bytes of an INFO string up to and including its NUL.      *)
(***************************************************************************)
MaxSubs == 2

MaxListData == 24

\* RiffChunkU8::read_le after the id: the size field, data_size bytes and
\* the pad byte of an odd size; the position after it, or 0 past the blob.
AfterIcon(pos, size, blob_len) ==
    IF pos + 4 > blob_len \/ pos + 4 + size > blob_len THEN 0
    ELSE pos + 4 + size + (size % 2)

\* cursor.read_exact(&mut buf) of the size, then NullString::read_le: the
\* bytes up to and including the first NUL, wherever it lies in the blob;
\* the size that was read is not used.
AfterString(pos, size, len, blob_len) ==
    IF pos + 4 > blob_len \/ pos + 4 + len > blob_len THEN 0
    ELSE pos + 4 + len

RECURSIVE InfoWhile(_, _, _, _, _, _, _)
\* The while loop of the INFO arm from subchunk k: Err, or Ok(position).
InfoWhile(subs, k, pos, end, blob_len, title, author) ==
    IF pos >= end THEN Ok(pos)
    ELSE IF k > Len(subs) \/ pos + 4 > blob_len THEN Err
    ELSE LET s == subs[k]
             next == AfterString(pos + 4, s.size, s.len, blob_len)
         IN  IF s.id = "INAM"
             THEN IF title \/ next = 0 THEN Err
                  ELSE InfoWhile(subs, k + 1, next, end, blob_len, TRUE, author)
             ELSE IF s.id = "IART"
             THEN IF author \/ next = 0 THEN Err
                  ELSE InfoWhile(subs, k + 1, next, end, blob_len, title, TRUE)
             ELSE Err

RECURSIVE FramWhile(_, _, _, _, _)
\* The while loop of the fram arm from subchunk k: Err, or Ok(position).
FramWhile(subs, k, pos, end, blob_len) ==
    IF pos >= end THEN (IF k = 1 THEN Err ELSE Ok(pos))        \* chunks.is_empty()
    ELSE IF k > Len(subs) \/ pos + 4 > blob_len THEN Err
    ELSE LET s == subs[k]
             next == AfterIcon(pos + 4, s.size, blob_len)
         IN  IF s.id # "icon" \/ next = 0 THEN Err
             ELSE FramWhile(subs, k + 1, next, end, blob_len)

\* parse_list with the cursor at list_start after the list id: Err, or
\* Ok([read_to |-> the position after the last subchunk read,
\*     position |-> the position it returns with]).
ParseList(blob_len, list_start, list_data_size, list_id, subs) ==
    LET end == list_start + list_data_size IN
    IF list_data_size > MaxChunkSize THEN Err
    ELSE IF end > blob_len THEN Err
    ELSE IF list_id = "INFO"
    THEN LET r == InfoWhile(subs, 1, list_start, end, blob_len, FALSE, FALSE) IN
         IF r.res # "ok" THEN Err
         ELSE Ok([read_to |-> r.val,
                  position |-> r.val + (IF list_data_size % 2 # 0 THEN 1 ELSE 0)])
    ELSE IF list_id = "fram"
    THEN LET r == FramWhile(subs, 1, list_start, end, blob_len) IN
         IF r.res # "ok" THEN Err
         ELSE Ok([read_to |-> r.val, position |-> r.val])
    ELSE Err

InfoSubs ==
    [id : {"INAM", "IART", "JUNK"}, size : {2, 3}, len : {2, 3}]

IconSubs ==
    {[id |-> i, size |-> s, len |-> 0] : i \in {"icon", "JUNK"}, s \in {0, 1, 2}}

\* The LIST chunks tried: "INFO" with string subchunks, "fram" and an
\* unknown id with icon subchunks.
ListSubs(list_id) ==
    IF list_id = "INFO" THEN SeqsUpTo(InfoSubs, MaxSubs) ELSE SeqsUpTo(IconSubs, MaxSubs)

InitListIn ==
    /\ \E b \in {32, 64}, n \in 0..MaxListData, id \in {"INFO", "fram", "JUNK"} :
         \E s \in ListSubs(id) :
            arg = Some([blob_len |-> b, list_start |-> 20, list_data_size |-> n,
                        list_id |-> id, subs |-> s])
    /\ ret = None

CallParseList ==
    /\ IsSome(arg) /\ ret = None
    /\ LET a == Unwrap(arg) IN
       ret' = Some(ParseList(a.blob_len, a.list_start, a.list_data_size, a.list_id, a.subs))
    /\ UNCHANGED <<arg, aniVars, jifVars, pixVars, xcVars, saveVars>>

NextList == CallParseList

(***************************************************************************)
(* formats/inf.rs: dequote_value and the table that expand_reg builds from *)
(* it.  The value of a [Strings] entry is None or Some(string).            *)
(***************************************************************************)
MaxEntryLen == 4

Quote == "\""

\* str::strip_suffix('"')
StripSuffix(s) ==
    IF Len(s) > 0 /\ s[Len(s)] = Quote THEN Some(SubSeq(s, 1, Len(s) - 1)) ELSE None

\* str::strip_prefix('"')
StripPrefix(s) ==
    IF Len(s) > 0 /\ s[1] = Quote THEN Some(SubSeq(s, 2, Len(s))) ELSE None

\* Option<&str>::unwrap_or_default()
UnwrapOrDefault(o) == IF IsSome(o) THEN Unwrap(o) ELSE <<>>

\* dequote_value((k, v)): None for an entry without a value, else (k, the
\* value after strip_suffix, unwrap_or_default, strip_prefix,
\* unwrap_or_default)
DequoteValue(k, v) ==
    IF v = None THEN None
    ELSE Some(<<k, UnwrapOrDefault(StripPrefix(UnwrapOrDefault(StripSuffix(Unwrap(v)))))>>)

\* One entry of the table of expand_reg: filter_map(dequote_value), then the
\* key between percent signs.
SubsEntry(k, v) ==
    LET d == DequoteValue(k, v)
    IN  IF d = None THEN None
        ELSE Some(<<(<<"%">> \o Unwrap(d)[1] \o <<"%">>), Unwrap(d)[2]>>)

EntryChars == {Quote, "a", "b"}

InitEntryIn ==
    /\ arg \in {Some([key |-> <<"k">>, value |-> v]) :
                   v \in {None} \cup {Some(s) : s \in SeqsUpTo(EntryChars, MaxEntryLen)}}
    /\ ret = None

CallSubsEntry ==
    /\ IsSome(arg) /\ ret = None
    /\ ret' = Some(SubsEntry(Unwrap(arg).key, Unwrap(arg).value))
    /\ UNCHANGED <<arg, aniVars, jifVars, pixVars, xcVars, saveVars>>

NextEntry == CallSubsEntry

(***************************************************************************)
(* main: the theme directories and then the cursor files, each list handed *)
(* to par_iter().try_for_each.  An input is a path on the command line; a  *)
(* theme directory carries the theme name its installer file declares.     *)
(* fs maps an output path to the inputs whose task has written it.         *)
(***************************************************************************)
\* inputs of one kind on a command line
MaxInputs == 2

OutDir == "out"

CursorFile(dir, stem, ext) ==
    [kind |-> "file", dir |-> dir, name |-> stem, ext |-> ext]

ThemeDir(dir, name) ==
    [kind |-> "theme", dir |-> dir, name |-> name, ext |-> ""]

CursorFileChoices ==
    {CursorFile("d1", "x", "cur"), CursorFile("d1", "x", "ani"),
     CursorFile("d2", "x", "cur"), CursorFile("d1", "y", "cur")}

ThemeDirChoices ==
    {ThemeDir("t1", "A"), ThemeDir("t2", "A"), ThemeDir("t3", "B")}

\* args.out.join(f.file_stem())
Filename(f) == <<OutDir, f.name>>

\* dir.join(&self.name).join("cursors").join(aliases[0])
ThemeCursorPath(t) == <<OutDir, t.name, "cursors", "default">>

\* theme_dir.join("index.theme")
ThemeIndexPath(t) == <<OutDir, t.name, "index.theme">>

OutputPaths ==
    {Filename(f) : f \in CursorFileChoices}
        \cup {ThemeCursorPath(t) : t \in ThemeDirChoices}
        \cup {ThemeIndexPath(t) : t \in ThemeDirChoices}

MainInputs ==
    {[themes |-> ts, files |-> fl] :
        ts \in {s \in SUBSET ThemeDirChoices : Cardinality(s) <= MaxInputs},
        fl \in {s \in SUBSET CursorFileChoices : Cardinality(s) <= MaxInputs}}

InitMainIn ==
    /\ theme \in MainInputs
    /\ task = [i \in theme.themes \cup theme.files |-> "pending"]
    /\ fs = [p \in OutputPaths |-> {}]

\* the cursor files are dispatched after the theme dispatch returned Ok
MayStart(i) ==
    \/ i.kind = "theme"
    \/ \A t \in theme.themes : task[t] = "done"

\* CursorTheme::from_theme_dir / GenericCursor::from_path, then the
\* add_scale loop: no output is written yet
LoadInput(i, ok) ==
    /\ task[i] = "pending"
    /\ MayStart(i)
    /\ task' = [task EXCEPT ![i] = IF ok THEN "loaded" ELSE "failed"]
    /\ UNCHANGED <<fs, theme, aniVars, jifVars, pixVars, xcVars, callVars>>

\* try_for_each stops handing out items once one closure returned Err
SkipInput(i) ==
    /\ task[i] = "pending"
    /\ \E j \in DOMAIN task : j.kind = i.kind /\ task[j] = "failed"
    /\ task' = [task EXCEPT ![i] = "skipped"]
    /\ UNCHANGED <<fs, theme, aniVars, jifVars, pixVars, xcVars, callVars>>

\* cursor.save_as_xcursor(filename)
SaveCursorFile(i) ==
    /\ i.kind = "file"
    /\ task[i] = "loaded"
    /\ fs' = [fs EXCEPT ![Filename(i)] = @ \cup {i}]
    /\ task' = [task EXCEPT ![i] = "done"]
    /\ UNCHANGED <<theme, aniVars, jifVars, pixVars, xcVars, callVars>>

\* save_as_x11_theme: create_dir_all and the cursors of the theme
SaveThemeCursors(i) ==
    /\ i.kind = "theme"
    /\ task[i] = "loaded"
    /\ fs' = [fs EXCEPT ![ThemeCursorPath(i)] = @ \cup {i}]
    /\ task' = [task EXCEPT ![i] = "cursors"]
    /\ UNCHANGED <<theme, aniVars, jifVars, pixVars, xcVars, callVars>>

\* save_as_x11_theme: File::create(index.theme) and the writeln!s
SaveThemeIndex(i) ==
    /\ i.kind = "theme"
    /\ task[i] = "cursors"
    /\ fs' = [fs EXCEPT ![ThemeIndexPath(i)] = @ \cup {i}]
    /\ task' = [task EXCEPT ![i] = "done"]
    /\ UNCHANGED <<theme, aniVars, jifVars, pixVars, xcVars, callVars>>

NextMain ==
    \/ \E i \in DOMAIN task, ok \in BOOLEAN : LoadInput(i, ok)
    \/ \E i \in DOMAIN task : SkipInput(i)
    \/ \E i \in DOMAIN task : SaveCursorFile(i)
    \/ \E i \in DOMAIN task : SaveThemeCursors(i)
    \/ \E i \in DOMAIN task : SaveThemeIndex(i)

(***************************************************************************)
(* CursorTheme::add_scale: GenericCursor::add_scale on every cursor of the *)
(* theme through par_iter_mut().try_for_each.  theme is the sequence of    *)
(* the cursors' GenericCursors, task the state of each cursor's closure in *)
(* the current call, fs the call: its arguments, the cursors before it and *)
(* its result.                                                             *)
(***************************************************************************)
NumThemeCursors == 2   \* cursors of the theme
MaxThemeCalls == 2     \* entries of args.scale_to

ThemeBases ==
    {<<Frame(<<1, 1>>, Plain, <<1, 0>>)>>, <<Frame(<<2, 1>>, Plain, <<1, 0>>)>>}

ThemeGroups ==
    {<<Frame(<<2, 2>>, Plain, <<1, 4>>)>>, <<Frame(<<1, 1>>, Plain, <<1, 1>>)>>}

\* The cursors from_theme_dir can load: a CUR or single-size ANI (GCNew), or
\* an ANI whose frames come in two sizes (GCNewWithScaled).
ThemeCursorChoices ==
    {r.val : r \in {x \in {GCNew(b) : b \in ThemeBases}
                        \cup {GCNewWithScaled(b, <<g>>) :
                                b \in ThemeBases, g \in ThemeGroups} :
                    x.res = "ok"}}

NoCall(before, calls) ==
    [scale_factor |-> 0, scale_type |-> "Upscale", before |-> before,
     result |-> "none", calls |-> calls]

InitThemeIn ==
    /\ theme \in [1..NumThemeCursors -> ThemeCursorChoices]
    /\ task = [i \in 1..NumThemeCursors |-> "idle"]
    /\ fs = NoCall(theme, 0)

\* theme.add_scale(sf, ...) in theme_pipeline's loop; an Err ends the loop
CallThemeAddScale(scale_factor, scale_type) ==
    /\ fs.result \in {"none", "ok"}
    /\ fs.calls < MaxThemeCalls
    /\ fs' = [scale_factor |-> scale_factor, scale_type |-> scale_type,
              before |-> theme, result |-> "running", calls |-> fs.calls + 1]
    /\ task' = [i \in 1..NumThemeCursors |-> "pending"]
    /\ UNCHANGED <<theme, aniVars, jifVars, pixVars, xcVars, callVars>>

\* the closure |c| c.inner.add_scale(scale_factor, algorithm) on cursor i
CursorAddScale(i) ==
    /\ fs.result = "running"
    /\ task[i] = "pending"
    /\ LET r == GCAddScale(theme[i], fs.scale_factor, fs.scale_type)
       IN  /\ theme' = IF r.res = "ok" THEN [theme EXCEPT ![i] = r.val] ELSE theme
           /\ task' = [task EXCEPT ![i] = r.res]
    /\ UNCHANGED <<fs, aniVars, jifVars, pixVars, xcVars, callVars>>

\* try_for_each stops handing out cursors once a closure returned Err
SkipCursor(i) ==
    /\ fs.result = "running"
    /\ task[i] = "pending"
    /\ \E j \in 1..NumThemeCursors : task[j] = "err"
    /\ task' = [task EXCEPT ![i] = "skipped"]
    /\ UNCHANGED <<fs, theme, aniVars, jifVars, pixVars, xcVars, callVars>>

ThemeResultAny(tasks) ==
    IF \E i \in 1..NumThemeCursors : tasks[i] = "ok" THEN "ok" ELSE "err"

\* the value of try_for_each(...)?; Ok(())
ThemeResult(tasks) ==
    IF \A i \in 1..NumThemeCursors : tasks[i] = "ok" THEN "ok" ELSE "err"

ReturnThemeAddScale ==
    /\ fs.result = "running"
    /\ \A i \in 1..NumThemeCursors : task[i] \in {"ok", "err", "skipped"}
    /\ fs' = [fs EXCEPT !.result = ThemeResult(task)]
    /\ UNCHANGED <<task, theme, aniVars, jifVars, pixVars, xcVars, callVars>>

NextTheme ==
    \/ \E k \in 1..MaxFactor, t \in {"Upscale", "Downscale"} : CallThemeAddScale(k, t)
    \/ \E i \in 1..NumThemeCursors : CursorAddScale(i)
    \/ \E i \in 1..NumThemeCursors : SkipCursor(i)
    \/ ReturnThemeAddScale

(***************************************************************************)
(* CursorImage::scaled_to on its own, over the images CursorImage::new     *)
(* accepts: non-zero dimensions, a hotspot inside them and a buffer of     *)
(* width * height * 4 bytes.                                               *)
(***************************************************************************)
MaxSide == 4   \* widths and heights 1..MaxSide

ValidImages ==
    UNION {{CursorImage(w, h, hx, hy, [len |-> w * h * 4, src |-> <<1, 0>>], d) :
                hx \in {0, w \div 2, w}, hy \in {0, h}, d \in {0, 100}} :
           w \in 1..MaxSide, h \in 1..MaxSide}

InitScaledIn ==
    /\ \E img \in ValidImages, k \in 1..MaxFactor, t \in {"Upscale", "Downscale"} :
         arg = Some([img |-> img, scale_factor |-> k, scale_type |-> t])
    /\ ret = None

CallScaledTo ==
    /\ IsSome(arg) /\ ret = None
    /\ LET a == Unwrap(arg) IN
       ret' = Some(ScaledTo(a.img, a.scale_factor, a.scale_type))
    /\ UNCHANGED <<arg, aniVars, jifVars, pixVars, xcVars, saveVars>>

NextScaled == CallScaledTo

(***************************************************************************)
(* formats/inf.rs: parse_inf_installer on the expanded Scheme.Reg line,    *)
(* from expanded_reg.split(',') on.  A line is its first field, the number *)
(* of fields up to the unused one (split yields at least one), the name    *)
(* field as a sequence of characters, and the path fields after the unused *)
(* field.                                                                  *)
(***************************************************************************)
FirstFields == {"hkcu", "HKCU", "hklm"}

\* str::eq_ignore_ascii_case("hkcu")
IsHkcu(s) == s \in {"hkcu", "HKCU"}

NameFields ==
    {<<Quote, "n", Quote>>, <<"n">>, <<Quote, "n">>, <<Quote>>, <<Quote, Quote>>}

RegLine(first, nhead, name, paths) ==
    [first |-> first, nhead |-> nhead, name |-> name, paths |-> paths]

ParseRegLine(line) ==
    IF ~IsHkcu(line.first) THEN Err
    ELSE IF line.nhead < 3 THEN Err                  \* couldn't parse theme name
    ELSE LET name == StripSuffix(UnwrapOrDefault(StripPrefix(line.name)))
         IN  IF name = None THEN Err                 \* expected theme name to be quoted
             ELSE LET m == MapPaths(line.paths)
                  IN  IF m.res = "ok"
                      THEN Ok([name |-> Unwrap(name), mappings |-> m.val])
                      ELSE m

InitLineIn ==
    /\ \/ \E f \in FirstFields, h \in 1..4, nm \in NameFields :
            arg = Some(RegLine(f, h, IF h >= 3 THEN nm ELSE <<>>, <<>>))
       \/ \E f \in FirstFields, nm \in NameFields, n \in 1..MaxPaths,
             b \in 0..1, c \in BOOLEAN :
            arg = Some(RegLine(f, 4, nm, PathFields(n, 0, b, c)))
    /\ ret = None

CallParseRegLine ==
    /\ IsSome(arg) /\ ret = None
    /\ ret' = Some(ParseRegLine(Unwrap(arg)))
    /\ UNCHANGED <<arg, aniVars, jifVars, pixVars, xcVars, saveVars>>

NextLine == CallParseRegLine

(***************************************************************************)
(* The jiffy conversion on its own, over 32-bit inputs.                    *)
(***************************************************************************)
MaxJiffyLo == 24    \* the low limbs 0..MaxJiffyLo are tried with every high limb

\* Small values, and values around the place where the result leaves u32
\* (257698037 = 3932 * 2^16 + 10485 is the last jiffy value below it).
JiffySamples ==
    {<<lo, hi>> : lo \in (0..MaxJiffyLo) \cup {10485, 10486, LimbBase - 1},
                  hi \in {0, 1, 3932, 3933, LimbBase - 1}}

InitJiffyIn == jif \in JiffySamples /\ ms = None

ConvertJiffy ==
    /\ ms = None
    /\ ms' = Some(JiffyToMsLimbs(jif))
    /\ UNCHANGED <<jif, aniVars, pixVars, callVars, saveVars, xcVars>>

NextJiffy == ConvertJiffy

InitJiffy == jif = <<0, 0>> /\ ms = None
InitPix   == pixel = <<0, 0, 0, 0>> /\ pre = None
InitXcur  == gc = None /\ info = None /\ lastAdd = "none" /\ xcur = None /\ file = None
InitCall  == arg = None /\ ret = None
InitSave  == fs = None /\ task = None /\ theme = "idle"

Init == InitAni /\ InitJiffy /\ InitPix /\ InitXcur /\ InitCall /\ InitSave

Spec == Init /\ [][Next]_vars

InitLoadSpec == InitLoad /\ InitJiffy /\ InitPix /\ InitXcur /\ InitCall /\ InitSave

SpecLoad == InitLoadSpec /\ [][NextLoad]_vars

InitJiffySpec == InitAni /\ InitJiffyIn /\ InitPix /\ InitXcur /\ InitCall /\ InitSave

SpecJiffy == InitJiffySpec /\ [][NextJiffy]_vars

InitXcurSpec == InitAni /\ InitJiffy /\ InitPix /\ InitXcur /\ InitCall /\ InitSave

SpecXcur == InitXcurSpec /\ [][NextXcur]_vars

InitPixSpec == InitAni /\ InitJiffy /\ InitPixIn /\ InitXcur /\ InitCall /\ InitSave

InitNewSpec == InitAni /\ InitJiffy /\ InitPix /\ InitXcur /\ InitNewIn /\ InitSave

SpecNew == InitNewSpec /\ [][NextNew]_vars

InitTryFromSpec == InitAni /\ InitJiffy /\ InitPix /\ InitXcur /\ InitTryFromIn /\ InitSave

SpecTryFrom == InitTryFromSpec /\ [][NextTryFrom]_vars

InitPathsSpec == InitAni /\ InitJiffy /\ InitPix /\ InitXcur /\ InitPathsIn /\ InitSave

SpecPaths == InitPathsSpec /\ [][NextPaths]_vars

InitExpandSpec == InitAni /\ InitJiffy /\ InitPix /\ InitXcur /\ InitExpandIn /\ InitSave

SpecExpand == InitExpandSpec /\ [][NextExpand]_vars

InitSaveSpec == InitAni /\ InitJiffy /\ InitPix /\ InitXcur /\ InitCall /\ InitSaveIn

SpecSave == InitSaveSpec /\ [][NextSave]_vars

InitSizesSpec == InitAni /\ InitJiffy /\ InitPix /\ InitXcur /\ InitSizesIn /\ InitSave

SpecSizes == InitSizesSpec /\ [][NextSizes]_vars

InitListSpec == InitAni /\ InitJiffy /\ InitPix /\ InitXcur /\ InitListIn /\ InitSave

SpecList == InitListSpec /\ [][NextList]_vars

InitEntrySpec == InitAni /\ InitJiffy /\ InitPix /\ InitXcur /\ InitEntryIn /\ InitSave

SpecEntry == InitEntrySpec /\ [][NextEntry]_vars

InitMainSpec == InitAni /\ InitJiffy /\ InitPix /\ InitXcur /\ InitCall /\ InitMainIn
SpecMain == InitMainSpec /\ [][NextMain]_vars

InitThemeSpec == InitAni /\ InitJiffy /\ InitPix /\ InitXcur /\ InitCall /\ InitThemeIn
SpecTheme == InitThemeSpec /\ [][NextTheme]_vars

InitScaledSpec == InitAni /\ InitJiffy /\ InitPix /\ InitXcur /\ InitScaledIn /\ InitSave
SpecScaled == InitScaledSpec /\ [][NextScaled]_vars

InitLineSpec == InitAni /\ InitJiffy /\ InitPix /\ InitXcur /\ InitLineIn /\ InitSave
SpecLine == InitLineSpec /\ [][NextLine]_vars

SpecPix == InitPixSpec /\ [][NextPix]_vars

(***************************************************************************)
(* Properties of the ANI decoder (Spec).                                   *)
(***************************************************************************)

\* C1: whenever from_blob succeeds, num_frames = |ico_frames|, every index of
\* a present sequence is below num_frames and a present rate table has
\* num_steps entries; the chunks may have come in any order.
C1_DecodedInvariants ==
    st = "ok" =>
        /\ ani.header.num_frames = Len(ani.ico_frames)
        /\ IsSome(ani.sequence) =>
              \A i \in 1..Len(Unwrap(ani.sequence)) :
                  Unwrap(ani.sequence)[i] < ani.header.num_frames
        /\ IsSome(ani.rate) => Len(Unwrap(ani.rate)) = ani.header.num_steps

\* A successful decode of a blob with all of fram, seq, rate and anih, whose
\* header came last (buf still holds its fourcc).
C1_Witness ==
    /\ st = "ok"
    /\ buf = "anih"
    /\ Len(ani.ico_frames) = 2
    /\ IsSome(ani.sequence) /\ Unwrap(ani.sequence) # <<>>
    /\ IsSome(ani.rate) /\ Unwrap(ani.rate) # <<>>

\* C2: from_blob succeeds only on blobs with exactly one 'anih' chunk and
\* exactly one LIST/'fram'; a blob without 'anih' or without 'fram' is
\* rejected.
C2_RequiredChunks ==
    st = "ok" => seen["anih"] = 1 /\ seen["fram"] = 1

\* C3: a blob in which 'anih', 'rate', 'seq ' or LIST/'fram' occurs a second
\* time is never decoded successfully, whatever the first occurrence held.
C3_DuplicatesRefused ==
    st = "ok" => \A k \in Kinds : seen[k] <= 1

(***************************************************************************)
(* Properties of the loader (SpecLoad).                                    *)
(***************************************************************************)
OneImageEach ==
    /\ \A i \in 1..Len(icos) : Len(icos[i]) = 1
    /\ \A i, j \in 1..Len(icos) : icos[i] = icos[j]

\* C4: for ICO frames of one image each, a loaded cursor's base has one
\* frame per play-order entry (sequence.data if present, 0..num_frames-1
\* otherwise), the k-th decoded from ico_frames[order[k]] and carrying the
\* k-th timing value; no step is dropped or reordered.
C4_PlayOrderKept ==
    (ld = "ok" /\ OneImageEach) =>
        LET expected == IF IsSome(ani.sequence) THEN Unwrap(ani.sequence)
                        ELSE [k \in 1..ani.header.num_frames |-> k - 1]
            base == Unwrap(cur).base
            timing == DelaysMs(ani)
        IN  /\ Len(base) = Len(expected)
            /\ \A k \in 1..Len(expected) :
                  /\ base[k].rgba.src = <<expected[k] + 1, 1>>
                  /\ k <= Len(timing)
                  /\ base[k].delay = timing[k]

(***************************************************************************)
(* Properties of the jiffy conversion (SpecJiffy).                         *)
(***************************************************************************)

\* (j * 1000 + 30) div 60 in unbounded arithmetic, as limbs.
JiffyFormula(j) == LimbsDiv60(LimbsPlus(LimbsTimes1000(j), 30)).q

\* C5 as stated: for every 32-bit j the conversion returns exactly
\* (j * 1000 + 30) div 60, computed in unbounded integers.
C5_JiffyExact ==
    IsSome(ms) => Unwrap(ms) = JiffyFormula(jif)

\* C5 as amended: the conversion returns (j * 1000 + 30) div 60 when that
\* fits 32 bits and 2^32 - 1 otherwise.
C5_JiffySaturating ==
    IsSome(ms) =>
        LET f == JiffyFormula(jif) IN
        Unwrap(ms) = IF f[3] = 0 THEN f ELSE <<LimbBase - 1, LimbBase - 1, 0>>

\* jiffy_rate = 6 converted to 100 ms.
C5_Witness == jif = <<6, 0>> /\ ms = Some(<<100, 0, 0>>)

(***************************************************************************)
(* Properties of the pre-multiplication (SpecPix).                         *)
(***************************************************************************)

\* C7: to_pre_argb maps (R, G, B, A) to B', G', R', A with
\* X' = (X * A + 127) div 255 in unbounded arithmetic and the alpha byte
\* kept; for A = 255 the output is B, G, R, 255.
C7_PreMultiplied ==
    IsSome(pre) =>
        LET R == pixel[1]
            G == pixel[2]
            B == pixel[3]
            A == pixel[4]
        IN  /\ Unwrap(pre) = <<(B * A + 127) \div 255, (G * A + 127) \div 255,
                               (R * A + 127) \div 255, A>>
            /\ A = 255 => Unwrap(pre) = <<B, G, R, 255>>

\* A half-transparent pixel, converted.
C7_Witness == pixel = <<10, 95, 180, 128>> /\ pre = Some(<<90, 48, 5, 128>>)

(***************************************************************************)
(* Properties of the Xcursor encoder (SpecXcur).                           *)
(***************************************************************************)
FramesOf(g) == g.base \o Flatten(g.scaled)

HasComment == IF IsSome(info) THEN 1 ELSE 0

\* C6: the TOC of a built Xcursor has num_images (+1 with a comment)
\* entries, and every chunk of the written file starts at the position of
\* its TOC entry: the first at 16 + 12 * toc_count, each next one after the
\* 20 + length bytes of a comment or the 36 + 4 * w * h bytes of an image.
C6_TocPositions ==
    IsSome(xcur) =>
        LET toc == Unwrap(xcur).header.toc
            toc_count == Len(FramesOf(Unwrap(gc))) + HasComment
        IN  /\ Len(toc) = toc_count
            /\ IsSome(file) =>
                  LET chunks == Unwrap(file).chunks IN
                  \A i \in 1..Len(chunks) :
                      /\ toc[i].position = chunks[i].offset
                      /\ i = 1 => chunks[i].offset = 16 + 12 * toc_count
                      /\ i > 1 => chunks[i].offset = chunks[i - 1].offset + chunks[i - 1].size
                      /\ chunks[i].kind = "Comment" => chunks[i].size = 20 + Unwrap(info)
                      /\ chunks[i].kind = "Image" =>
                            chunks[i].size = 36 + 4 * chunks[i].body.width * chunks[i].body.height

\* A written file of one 1x1 image without comment: the image is at 28.
C6_Single ==
    /\ IsSome(file) /\ Unwrap(file).ok
    /\ info = None
    /\ Len(Unwrap(file).chunks) = 1
    /\ Unwrap(file).chunks[1].body.width = 1
    /\ Unwrap(file).chunks[1].body.height = 1
    /\ Unwrap(xcur).header.toc[1].position = 28

\* A written file with a comment and four images of two sizes.
C6_Witness ==
    /\ IsSome(file) /\ Unwrap(file).ok
    /\ IsSome(info)
    /\ Len(Unwrap(file).chunks) = 5
    /\ Unwrap(file).chunks[5].body.width # Unwrap(file).chunks[2].body.width

ImageOk(i) ==
    /\ 1 <= i.width /\ i.width <= 2048
    /\ 1 <= i.height /\ i.height <= 2048
    /\ i.hotspot_x <= i.width
    /\ i.hotspot_y <= i.height
    /\ i.delay <= 60000
    /\ i.argb.len = i.width * i.height

C8_DelayRefused ==
    /\ IsSome(file) /\ ~Unwrap(file).ok
    /\ \A i \in 1..Len(Unwrap(xcur).images) :
          ImageOk([Unwrap(xcur).images[i] EXCEPT !.delay = 0])

\* C9: the TOC entries are in the order of the chunks: the comment entry
\* first if there is a comment, then one image entry per frame, the base
\* frames in their order and then each scaled group in the order of
\* `scaled`; an image entry's subtype is max(w, h) of its image chunk, and
\* the file holds the chunks in that same order.
C9_TocOrder ==
    IsSome(xcur) =>
        LET x == Unwrap(xcur)
            toc == x.header.toc
            frames == FramesOf(Unwrap(gc))
        IN  /\ Len(toc) = HasComment + Len(frames)
            /\ Len(x.images) = Len(frames)
            /\ IsSome(info) => toc[1].type = "Comment" /\ IsSome(x.comment)
            /\ \A i \in 1..Len(frames) :
                  /\ toc[HasComment + i].type = "Image"
                  /\ toc[HasComment + i].subtype = Max(x.images[i].width, x.images[i].height)
                  /\ x.images[i].width = frames[i].width
                  /\ x.images[i].height = frames[i].height
                  /\ x.images[i].argb.src = frames[i].rgba.src
            /\ IsSome(file) =>
                  LET chunks == Unwrap(file).chunks IN
                  \A k \in 1..Len(chunks) :
                      /\ chunks[k].kind = toc[k].type
                      /\ chunks[k].kind = "Image" => chunks[k].body = x.images[k - HasComment]

\* A written cursor with a comment, two base frames and a group added by
\* add_scale after a given one.
C9_Witness ==
    /\ IsSome(file) /\ Unwrap(file).ok
    /\ IsSome(info)
    /\ Len(Unwrap(gc).base) = 2
    /\ Len(Unwrap(gc).scaled) = 2
    /\ lastAdd = "ok"

\* C10: every scaled group has as many frames as base, and there are as
\* many scaled groups as registered factors other than the base factor 1.0.
C10_GroupsMatchFactors ==
    IsSome(gc) =>
        LET g == Unwrap(gc) IN
        /\ \A i \in 1..Len(g.scaled) : Len(g.scaled[i]) = Len(g.base)
        /\ Len(g.scaled) =
              Cardinality({i \in 1..Len(g.scale_factors) : g.scale_factors[i] # One})

\* The part of C10 that holds: the groups have the length of base.
C10_GroupLengths ==
    IsSome(gc) =>
        \A i \in 1..Len(Unwrap(gc).scaled) : Len(Unwrap(gc).scaled[i]) = Len(Unwrap(gc).base)

\* C11: the registered scale factors of every constructed cursor include
\* 1.0 and hold no factor twice, whatever add_scale calls followed; so
\* add_scale with factor 1 is rejected in every such cursor.
C11_FactorsIncludeOne ==
    IsSome(gc) =>
        LET g == Unwrap(gc) IN
        /\ Contains(g.scale_factors, One)
        /\ \A i, j \in 1..Len(g.scale_factors) :
              g.scale_factors[i] = g.scale_factors[j] => i = j
        /\ \A t \in {"Upscale", "Downscale"} : GCAddScale(g, 1, t).res = "err"

\* The part of C11 that holds: no factor is registered twice.
C11_FactorsUnique ==
    IsSome(gc) =>
        \A i, j \in 1..Len(Unwrap(gc).scale_factors) :
            Unwrap(gc).scale_factors[i] = Unwrap(gc).scale_factors[j] => i = j

GroupNominals(g) == <<NominalSize(g.base[1])>> \o [i \in 1..Len(g.scaled) |-> NominalSize(g.scaled[i][1])]

\* C12: the nominal sizes max(w, h) of the base and of all scaled groups
\* of a constructed cursor are pairwise distinct, whatever successful
\* add_scale calls followed.
C12_NominalSizesDistinct ==
    IsSome(gc) =>
        LET n == GroupNominals(Unwrap(gc)) IN
        \A i, j \in 1..Len(n) : n[i] = n[j] => i = j

\* C12 for cursors built by new alone, where 1.0 is registered: two
\* different downscale factors still give groups of one nominal size.
C12_NominalSizesDistinctAfterNew ==
    (IsSome(gc) /\ Len(Unwrap(gc).scale_factors) = Len(Unwrap(gc).scaled) + 1) =>
        LET n == GroupNominals(Unwrap(gc)) IN
        \A i, j \in 1..Len(n) : n[i] = n[j] => i = j

\* The factor a call add_scale(k, t) registers: k, or 1/k for a downscale.
FactorOf(k, t) == IF t = "Upscale" THEN <<k, 1>> ELSE <<1, k>>

Occurrences(s, x) == Cardinality({i \in 1..Len(s) : s[i] = x})

\* C13: a call of add_scale with a registered factor is rejected and
\* changes nothing; a call with a new factor f leaves f in the factor list
\* exactly once and appends exactly one group at the end of scaled, of
\* |base| frames, the i-th made from the i-th base frame (same pixel source,
\* same delay, scaled dimensions); base and the earlier groups stay.
C13_AddScaleEffect ==
    [][\A k \in 1..MaxFactor, t \in {"Upscale", "Downscale"} :
          AddScale(k, t) =>
              LET g == Unwrap(gc)
                  h == Unwrap(gc')
                  f == FactorOf(k, t)
              IN  IF Occurrences(g.scale_factors, f) > 0
                  THEN lastAdd' = "err" /\ gc' = gc
                  ELSE /\ lastAdd' = "ok"
                       /\ Occurrences(h.scale_factors, f) = 1
                       /\ h.base = g.base
                       /\ Len(h.scaled) = Len(g.scaled) + 1
                       /\ SubSeq(h.scaled, 1, Len(g.scaled)) = g.scaled
                       /\ LET new == h.scaled[Len(h.scaled)] IN
                          /\ Len(new) = Len(g.base)
                          /\ \A i \in 1..Len(new) :
                                /\ new[i].delay = g.base[i].delay
                                /\ new[i].rgba.src = g.base[i].rgba.src
                                /\ new[i].width =
                                      IF t = "Upscale" THEN g.base[i].width * k
                                      ELSE g.base[i].width \div k
                                /\ new[i].height =
                                      IF t = "Upscale" THEN g.base[i].height * k
                                      ELSE g.base[i].height \div k]_vars

\* An accepted add_scale on a cursor that already had a group: the new
\* group is the second one and carries the delay of the base frame.
C13_Witness ==
    /\ IsSome(gc) /\ lastAdd = "ok"
    /\ Len(Unwrap(gc).scaled) = 2
    /\ Unwrap(gc).base[1].delay = 100
    /\ Unwrap(gc).scaled[2][1].delay = 100
    /\ Unwrap(gc).scaled[2][1].width = 2 * Unwrap(gc).base[1].width

(***************************************************************************)
(* Properties of CursorImage::new (SpecNew).                               *)
(***************************************************************************)

\* C14: for all 32-bit arguments and every buffer, CursorImage::new returns
\* an error when width = 0, height = 0, hotspot_x > width, hotspot_y >
\* height or rgba.len() differs from the mathematical 4 * width * height,
\* and otherwise returns an image holding exactly the given values.
C14_NewRejects ==
    IsSome(ret) =>
        LET a == Unwrap(arg)
            r == Unwrap(ret)
            bad == \/ a.width = ZeroU32 \/ a.height = ZeroU32
                   \/ GtU32(a.hotspot_x, a.width) \/ GtU32(a.hotspot_y, a.height)
                   \/ a.len # Exact4wh(a.width, a.height)
        IN  /\ bad => r.res = "err"
            /\ ~bad =>
                  /\ r.res = "ok"
                  /\ r.val = [width |-> a.width, height |-> a.height,
                              hotspot_x |-> a.hotspot_x, hotspot_y |-> a.hotspot_y,
                              len |-> a.len, delay |-> a.delay]

\* C14 where 4 * width * height fits 32 bits: there the claim holds.
C14_NewRejectsInRange ==
    (IsSome(ret) /\ FitsU32(Exact4wh(Unwrap(arg).width, Unwrap(arg).height))) =>
        C14_NewRejects


(***************************************************************************)
(* Properties of CursorImages::try_from (SpecTryFrom).                     *)
(***************************************************************************)

\* C15: CursorImages::try_from(vec) succeeds exactly when vec is nonempty,
\* all frames have the same (width, height), and either there is one frame
\* with delay 0 or there are several frames with all delays nonzero; in
\* every other case it returns an error.  On success the frames are kept.
C15_TryFromExactly ==
    IsSome(ret) =>
        LET vec == Unwrap(arg)
            r == Unwrap(ret)
            valid ==
                /\ Len(vec) >= 1
                /\ \A i, j \in 1..Len(vec) :
                      /\ vec[i].width = vec[j].width
                      /\ vec[i].height = vec[j].height
                /\ \/ Len(vec) = 1 /\ vec[1].delay = 0
                   \/ Len(vec) > 1 /\ \A i \in 1..Len(vec) : vec[i].delay # 0
        IN  /\ r.res \in {"ok", "err"}
            /\ r.res = "ok" <=> valid
            /\ r.res = "ok" => r.val.inner = vec

\* a single static frame has been accepted
C15_Witness ==
    /\ IsSome(ret) /\ Unwrap(ret).res = "ok"
    /\ Len(Unwrap(arg)) = 1 /\ Unwrap(arg)[1].delay = 0

\* an animation of the longest length has been accepted
C15_WitnessAnimated ==
    /\ IsSome(ret) /\ Unwrap(ret).res = "ok" /\ Len(Unwrap(arg)) = MaxVecLen


(***************************************************************************)
(* Properties of parse_inf_installer's path list (SpecPaths).              *)
(***************************************************************************)
WellFormedPaths(fields) ==
    /\ \A i \in 1..Len(fields) : fields[i].dir
    /\ Len(fields) > 0 => fields[Len(fields)].quote

PositionalResult(fields, r) ==
    /\ r.res = "ok"
    /\ Len(r.val) = Min(Len(fields), NumMapped)
    /\ \A i \in 1..Len(r.val) :
          /\ r.val[i].type = IndexToCursorTypeTable[i]
          /\ r.val[i].path.name = fields[i].file
    /\ \A i, j \in 1..Len(r.val) : r.val[i].type = r.val[j].type => i = j

\* C16: parse_inf_installer maps a list of n paths purely by position: the
\* path at index i in 0..14 gets the role at index i of the fixed order,
\* paths at index 15 and above are dropped, so the result has min(n, 15)
\* mappings with pairwise distinct roles, in input order.
C16_PositionalMapping ==
    (IsSome(ret) /\ WellFormedPaths(Unwrap(arg))) =>
        PositionalResult(Unwrap(arg), Unwrap(ret))

\* C16 for lists of at least one path: there the mapping is as claimed.
C16_PositionalMappingNonEmpty ==
    (IsSome(ret) /\ WellFormedPaths(Unwrap(arg)) /\ Len(Unwrap(arg)) >= 1) =>
        PositionalResult(Unwrap(arg), Unwrap(ret))

\* a list of 17 paths has been mapped to 15 roles
C16_Witness ==
    /\ IsSome(ret) /\ Unwrap(ret).res = "ok"
    /\ Len(Unwrap(arg)) = 17 /\ Len(Unwrap(ret).val) = NumMapped
    /\ Unwrap(ret).val[NumMapped].type = "Hand"


(***************************************************************************)
(* Properties of expand (SpecExpand).                                      *)
(***************************************************************************)
\* The position of the first '%' of s at or after i, or 0.
RECURSIVE FirstPercent(_, _)
FirstPercent(s, i) ==
    IF i > Len(s) THEN 0 ELSE IF s[i] = "%" THEN i ELSE FirstPercent(s, i + 1)

\* The value of one token, key without its percent signs: '%%' is '%', an
\* all-digit key is itself, another key is looked up; a table entry for the
\* token comes first when table_first, and last otherwise.
TokenValue(key, subs, table_first) ==
    LET sub_key == <<"%">> \o key \o <<"%">>
    IN  IF table_first /\ sub_key \in DOMAIN subs THEN Some(subs[sub_key])
        ELSE IF key = <<>> THEN Some(<<"%">>)
        ELSE IF \A i \in 1..Len(key) : key[i] \in Digits THEN Some(sub_key)
        ELSE IF sub_key \in DOMAIN subs THEN Some(subs[sub_key])
        ELSE None

\* The result read token by token from the left: the text before a token,
\* the token's value, then the rest expanded the same way.
RECURSIVE ExpandTokens(_, _, _)
ExpandTokens(value, subs, table_first) ==
    LET i == FirstPercent(value, 1)
        j == IF i = 0 THEN 0 ELSE FirstPercent(value, i + 1)
    IN  IF i = 0 THEN Ok(value)
        ELSE IF j = 0 THEN Err
        ELSE LET t == TokenValue(SubSeq(value, i + 1, j - 1), subs, table_first)
                 rest == ExpandTokens(SubSeq(value, j + 1, Len(value)), subs, table_first)
             IN  IF t = None \/ rest = Err THEN Err
                 ELSE Ok(SubSeq(value, 1, i - 1) \o Unwrap(t) \o rest.val)

\* C17: expand(value, subs) replaces every %KEY% token, delimited by
\* consecutive pairs of '%' from the left, and leaves the other text: '%%'
\* becomes '%', an all-digit key is passed through unchanged, any other key
\* is replaced by its table value; it fails when the number of '%' is odd
\* or a non-digit key has no entry; a value without '%' comes back as is.
C17_ExpandTokens ==
    IsSome(ret) =>
        Unwrap(ret) = ExpandTokens(Unwrap(arg).value, Unwrap(arg).subs, FALSE)

\* C17 as amended: a token with a table entry is replaced by that entry,
\* whatever its key; only a token without an entry becomes '%' (for '%%'),
\* is passed through (all-digit key) or is an error (any other key).
C17_ExpandTokensTableFirst ==
    IsSome(ret) =>
        Unwrap(ret) = ExpandTokens(Unwrap(arg).value, Unwrap(arg).subs, TRUE)

\* a token has been replaced by a longer value between unchanged text
C17_Witness ==
    /\ IsSome(ret)
    /\ Unwrap(arg).value = <<"1", "%", "a", "%", "a">>
    /\ Unwrap(ret) = Ok(<<"1", "x", "y", "a">>)

\* a DIRID token and a doubled percent sign have been expanded
C17_WitnessDirid ==
    /\ IsSome(ret)
    /\ Unwrap(arg).value = <<"%", "1", "%", "%", "%">>
    /\ Unwrap(ret) = Ok(<<"%", "1", "%", "%">>)


(***************************************************************************)
(* Properties of saving a theme (SpecSave).                                *)
(***************************************************************************)

\* C18: in every interleaving of the per-cursor save tasks, a cursor's
\* file cursors/<aliases[0]> has been written before any of its links
\* aliases[1..] is created, and index.theme is written only after every
\* cursor has been saved successfully.
C18_FileBeforeLinks ==
    IsSome(task) =>
        /\ \A i \in Cursors :
              Unwrap(task)[i].made # {} =>
                  /\ Unwrap(task)[i].wrote
                  /\ Unwrap(fs).cursors[Aliases[i][1]] = RegularFile
        /\ Unwrap(fs).index = RegularFile =>
              \A i \in Cursors : Unwrap(task)[i].pc = "done" /\ Unwrap(task)[i].wrote

\* the same, step by step: a link is made only by a task that has written
\* its file, and index.theme appears only when every task has returned Ok
C18_Steps ==
    [][IsSome(task) =>
         /\ \A i \in Cursors :
               Unwrap(task')[i].made # Unwrap(task)[i].made => Unwrap(task)[i].wrote
         /\ Unwrap(fs').index # Unwrap(fs).index =>
               \A i \in Cursors : Unwrap(task)[i].pc = "done"]_vars

\* both cursors were saved, one made a link while the other had not yet
\* finished, and index.theme was written
C18_Witness ==
    /\ theme = "done" /\ Unwrap(fs).index = RegularFile
    /\ Unwrap(task)[1].made = {"a1", "a2"} /\ Unwrap(task)[2].made = {"b1"}

\* a link of one cursor exists while the other cursor's file is not written
C18_WitnessInterleaved ==
    /\ theme = "saving"
    /\ Unwrap(task)[1].made # {} /\ Unwrap(task)[2].pc = "start"


\* C19: TypedCursor::save_as_xcursor tolerates an existing alias entry that
\* is a link to aliases[0], and whenever it returns success every name of
\* aliases[1..] in the cursors directory is a symbolic link whose target is
\* aliases[0].
C19_LinksAfterSuccess ==
    IsSome(task) =>
        \A i \in Cursors :
            Unwrap(task)[i].pc = "done" =>
                \A k \in 2..Len(Aliases[i]) :
                    Unwrap(fs).cursors[Aliases[i][k]] = Link(Aliases[i][1])

\* What success does give: every alias name exists, and the ones this call
\* made are links to aliases[0]; an older entry is left as it was.
C19_AliasesExistAfterSuccess ==
    IsSome(task) =>
        \A i \in Cursors :
            Unwrap(task)[i].pc = "done" =>
                \A k \in 2..Len(Aliases[i]) :
                    /\ Unwrap(fs).cursors[Aliases[i][k]] # Absent
                    /\ Aliases[i][k] \in Unwrap(task)[i].made =>
                          Unwrap(fs).cursors[Aliases[i][k]] = Link(Aliases[i][1])

\* an existing link with the right target was tolerated: the cursor was
\* saved without making that link again
C19_WitnessTolerated ==
    /\ IsSome(task) /\ Unwrap(task)[2].pc = "done" /\ Unwrap(task)[2].made = {}
    /\ Unwrap(fs).cursors["b1"] = Link("b")


(***************************************************************************)
(* Properties of the decoder's size checks (SpecSizes).                    *)
(***************************************************************************)

\* C20: from_blob refuses, before it reads the payload, a blob longer than
\* 2 MiB, a LIST whose data size exceeds 2 MiB, a LIST whose declared data
\* extends beyond the end of the blob, and a LIST 'fram' whose data size
\* exceeds 1 MiB.
C20_SizeCaps ==
    (IsSome(ret) /\ Unwrap(ret).res = "ok") =>
        LET a == Unwrap(arg) IN
        /\ a.blob_len <= 2097152
        /\ a.list_size - 4 <= 2097152
        /\ a.position + (a.list_size - 4) <= a.blob_len
        /\ a.list_id = "fram" => a.list_size - 4 <= 1048576

\* C20 without the cap on 'fram': these three refusals the decoder makes.
C20_ListCaps ==
    (IsSome(ret) /\ Unwrap(ret).res = "ok") =>
        LET a == Unwrap(arg) IN
        /\ a.blob_len <= 2097152
        /\ a.list_size - 4 <= 2097152
        /\ a.position + (a.list_size - 4) <= a.blob_len

\* a list that ends exactly at the end of a 2 MiB blob has been let through
C20_Witness ==
    /\ IsSome(ret) /\ Unwrap(ret).res = "ok"
    /\ Unwrap(arg).blob_len = 2097152 /\ Unwrap(ret).val.end = 2097152


(***************************************************************************)
(* Properties of the loader's partition into base and scaled (SpecLoad).   *)
(***************************************************************************)

\* C21: when the ICO entries hold several sizes, each scaled group that
\* from_ani_path builds has its frames in play order: the k-th frame of a
\* group comes from the same step (the same ICO frame, with the same
\* delay) as the k-th base frame, and every group has |base| frames or the
\* load fails.
C21_GroupsInPlayOrder ==
    (ld = "ok" /\ IsSome(cur)) =>
        LET c == Unwrap(cur) IN
        \A i \in 1..Len(c.scaled) :
            /\ Len(c.scaled[i]) = Len(c.base)
            /\ \A k \in 1..Len(c.scaled[i]) :
                  /\ c.scaled[i][k].rgba.src[1] = c.base[k].rgba.src[1]
                  /\ c.scaled[i][k].delay = c.base[k].delay

\* The half of C21 that holds: a loaded cursor's groups have |base| frames.
C21_GroupLengthsOrFail ==
    (ld = "ok" /\ IsSome(cur)) =>
        \A i \in 1..Len(Unwrap(cur).scaled) :
            Len(Unwrap(cur).scaled[i]) = Len(Unwrap(cur).base)

\* a two-step animation with a scaled group has been loaded
C21_WitnessScaledGroup ==
    /\ ld = "ok" /\ IsSome(cur)
    /\ Len(Unwrap(cur).base) = 2 /\ Len(Unwrap(cur).scaled) = 1


\* the dimensions that the code takes for base: those of the first entry of
\* the first ICO in play order
FirstEntryDims == icos[order[1]][1]

\* C22: from_ani_path takes 32x32 as the base dimensions whenever any
\* decoded entry is 32x32, and otherwise the dimensions of the first entry
\* of the first ICO in play order; exactly the frames of the chosen
\* dimensions form base.
C22_BasePrefers32 ==
    (ld = "ok" /\ IsSome(cur)) =>
        LET c == Unwrap(cur)
            images == AllImages(icos, order, DelaysMs(ani), 1)
            chosen == IF D32 \in DimsOf(images) THEN D32 ELSE FirstEntryDims
        IN  /\ c.base = WithDims(images, chosen)
            /\ \A i \in 1..Len(c.scaled) : \A k \in 1..Len(c.scaled[i]) :
                  Dimensions(c.scaled[i][k]) # chosen

\* What the code does: base is exactly the frames that have the dimensions
\* of the first entry of the first ICO, whether or not a 32x32 entry exists.
C22_BaseIsFirstEntry ==
    (ld = "ok" /\ IsSome(cur)) =>
        LET c == Unwrap(cur)
            images == AllImages(icos, order, DelaysMs(ani), 1)
        IN  /\ c.base = WithDims(images, FirstEntryDims)
            /\ \A i \in 1..Len(c.scaled) : \A k \in 1..Len(c.scaled[i]) :
                  Dimensions(c.scaled[i][k]) # FirstEntryDims

\* a cursor whose ICO lists 16x16 before 32x32 has been loaded
C22_Witness16First ==
    /\ ld = "ok" /\ IsSome(cur)
    /\ icos[order[1]] = <<D16, D32>>
    /\ Len(Unwrap(cur).scaled) = 1


\* the CursorImages invariants on delays, for one sequence of frames
DelaysValid(frames) ==
    /\ Len(frames) = 1 => frames[1].delay = 0
    /\ Len(frames) > 1 => \A k \in 1..Len(frames) : frames[k].delay # 0

\* C23: every GenericCursor that the loader returns has a base, and scaled
\* groups, that satisfy the CursorImages invariants: a single frame has
\* delay 0 and several frames have nonzero delays throughout; an input that
\* would break this (a rate entry of 0 in an animation of several steps,
\* several steps with jiffy_rate 0) gives an error, not a cursor.
C23_LoadedDelaysValid ==
    (ld = "ok" /\ IsSome(cur)) =>
        /\ DelaysValid(Unwrap(cur).base)
        /\ \A i \in 1..Len(Unwrap(cur).scaled) : DelaysValid(Unwrap(cur).scaled[i])

\* What the loader does guarantee: a frame's delay is the converted timing
\* value of a step, zero or not.
C23_DelaysAreTimings ==
    (ld = "ok" /\ IsSome(cur)) =>
        \A k \in 1..Len(Unwrap(cur).base) :
            \E s \in 1..Len(DelaysMs(ani)) : Unwrap(cur).base[k].delay = DelaysMs(ani)[s]


(***************************************************************************)
(* Properties of parse_list by positions (SpecList).                       *)
(***************************************************************************)

\* C24: whenever parse_list succeeds, all it consumed lies inside the
\* list's declared bounds: no string and no 'icon' subchunk is read past
\* list_start + list_data_size, and the cursor is left exactly there, plus
\* one pad byte when an INFO list's data size is odd.
C24_ReadsInsideList ==
    (IsSome(ret) /\ Unwrap(ret).res = "ok") =>
        LET a == Unwrap(arg)
            r == Unwrap(ret).val
            end == a.list_start + a.list_data_size
        IN  /\ r.read_to <= end
            /\ r.position = end + (IF a.list_id = "INFO" /\ a.list_data_size % 2 = 1
                                   THEN 1 ELSE 0)

\* What bounds the reads: the end of the blob.
C24_ReadsInsideBlob ==
    (IsSome(ret) /\ Unwrap(ret).res = "ok") =>
        /\ Unwrap(ret).val.read_to <= Unwrap(arg).blob_len
        /\ Unwrap(ret).val.read_to >= Unwrap(arg).list_start + Unwrap(arg).list_data_size

\* an INFO list with a title and an author that fill it exactly was parsed
C24_WitnessExact ==
    /\ IsSome(ret) /\ Unwrap(ret).res = "ok"
    /\ Unwrap(arg).list_id = "INFO" /\ Len(Unwrap(arg).subs) = 2
    /\ Unwrap(ret).val.position = Unwrap(arg).list_start + Unwrap(arg).list_data_size


(***************************************************************************)
(* Properties of dequote_value (SpecEntry).                                *)
(***************************************************************************)
Surrounded(s) == Len(s) >= 2 /\ s[1] = Quote /\ s[Len(s)] = Quote

\* C25: for every [Strings] entry with a value, dequote_value yields the
\* value with its one surrounding pair of double quotes removed and nothing
\* else changed; a value not surrounded by double quotes is kept as it is.
C25_DequoteKeepsText ==
    (IsSome(ret) /\ IsSome(Unwrap(arg).value)) =>
        LET s == Unwrap(Unwrap(arg).value)
            want == IF Surrounded(s) THEN SubSeq(s, 2, Len(s) - 1) ELSE s
        IN  Unwrap(ret) = Some(<<(<<"%">> \o Unwrap(arg).key \o <<"%">>), want>>)

\* C25 for the values that are surrounded by quotes: one pair is removed.
C25_DequoteSurrounded ==
    (IsSome(ret) /\ IsSome(Unwrap(arg).value) /\ Surrounded(Unwrap(Unwrap(arg).value))) =>
        LET s == Unwrap(Unwrap(arg).value)
        IN  Unwrap(ret) = Some(<<(<<"%">> \o Unwrap(arg).key \o <<"%">>),
                                 SubSeq(s, 2, Len(s) - 1)>>)

\* a quoted value that itself holds a quote has lost its outer pair only
C25_WitnessQuoted ==
    /\ IsSome(ret)
    /\ Unwrap(arg).value = Some(<<Quote, "a", Quote, Quote>>)
    /\ Unwrap(ret) = Some(<<(<<"%", "k", "%">>), (<<"a", Quote>>)>>)


(***************************************************************************)
(* Properties of the registered scale factors (SpecXcur).                  *)
(***************************************************************************)
\* the factor registered for scaled group i: the factors are pushed in the
\* order of the groups, after 1.0 when the cursor was made by new
FactorOfGroup(g, i) == g.scale_factors[i + Len(g.scale_factors) - Len(g.scaled)]

\* C26: for every scaled group i of a cursor, whether it came from the
\* source file or from add_scale, nominal(scaled[i].first) divided by
\* nominal(base.first) equals the factor registered for that group.
C26_RatioIsFactor ==
    IsSome(gc) =>
        LET g == Unwrap(gc) IN
        \A i \in 1..Len(g.scaled) :
            Ratio(NominalSize(g.scaled[i][1]), NominalSize(g.base[1])) = FactorOfGroup(g, i)

\* The part of C26 that holds: a group added by an upscale has the ratio
\* that was registered for it.
C26_UpscaleRatio ==
    [][\A k \in 1..MaxFactor :
          (AddScale(k, "Upscale") /\ lastAdd' = "ok") =>
              LET h == Unwrap(gc') IN
              Ratio(NominalSize(h.scaled[Len(h.scaled)][1]), NominalSize(h.base[1]))
                  = FactorOfGroup(h, Len(h.scaled))]_vars


\* C27: no output path is written by the tasks of two distinct inputs.
C27_DisjointOutputs == \A p \in DOMAIN fs : Cardinality(fs[p]) <= 1

\* Inputs whose file stems (theme names) differ pairwise write disjoint paths.
C27_DisjointWhenNamesDiffer ==
    (\A i, j \in DOMAIN task : (i.kind = j.kind /\ i.name = j.name) => i = j)
        => \A p \in DOMAIN fs : Cardinality(fs[p]) <= 1


\* Cursor i holds what it held before the call and one more group, of the
\* call's factor, which it did not have before.
GainedGroup(i) ==
    LET b == fs.before[i]
        c == theme[i]
        canon == CanonScaleFactor(fs.scale_factor, fs.scale_type)
    IN  /\ c.base = b.base
        /\ Len(c.scaled) = Len(b.scaled) + 1
        /\ SubSeq(c.scaled, 1, Len(b.scaled)) = b.scaled
        /\ Len(c.scaled[Len(c.scaled)]) = Len(b.base)
        /\ c.scale_factors = Append(b.scale_factors, canon)
        /\ ~Contains(b.scale_factors, canon)

\* C28: CursorTheme::add_scale is all-or-nothing: after an error no cursor
\* has changed, after success every cursor has gained exactly one group.
C28_AllOrNothing ==
    /\ fs.result = "err" => theme = fs.before
    /\ fs.result = "ok" => \A i \in 1..NumThemeCursors : GainedGroup(i)

\* C28 (amended): after an error some cursor is unchanged and every cursor
\* is unchanged or has gained exactly one group; after success every cursor
\* has gained exactly one group.
C28_EachCursorWhole ==
    /\ fs.result = "err" =>
        /\ \E i \in 1..NumThemeCursors : theme[i] = fs.before[i]
        /\ \A i \in 1..NumThemeCursors : theme[i] = fs.before[i] \/ GainedGroup(i)
    /\ fs.result = "ok" => \A i \in 1..NumThemeCursors : GainedGroup(i)

\* A call returned an error after one cursor gained the group.
C28_WitnessPartial ==
    /\ fs.result = "err"
    /\ \E i, j \in 1..NumThemeCursors : GainedGroup(i) /\ theme[j] = fs.before[j]

\* A call returned success.
C28_WitnessSuccess ==
    /\ fs.result = "ok"
    /\ \A i \in 1..NumThemeCursors : GainedGroup(i)


\* The hotspot of r is the hotspot of img scaled by k, truncated toward zero.
HotspotScaled(img, k, t, r) ==
    IF t = "Upscale"
    THEN r.hotspot_x = img.hotspot_x * k /\ r.hotspot_y = img.hotspot_y * k
    ELSE /\ r.hotspot_x * k <= img.hotspot_x /\ img.hotspot_x < (r.hotspot_x + 1) * k
         /\ r.hotspot_y * k <= img.hotspot_y /\ img.hotspot_y < (r.hotspot_y + 1) * k

\* The invariants of CursorImage, except the non-zero dimensions.
HotspotAndLength(r) ==
    /\ r.hotspot_x <= r.width
    /\ r.hotspot_y <= r.height
    /\ r.rgba.len = 4 * r.width * r.height

\* C29: for a valid image and a scale factor >= 1 of either type, scaled_to
\* returns an image with width >= 1, height >= 1, the hotspot inside the
\* dimensions and 4 * width * height bytes, the hotspot scaled by the factor
\* with truncation.
C29_ScaledKeepsInvariants ==
    IsSome(ret) =>
        LET a == Unwrap(arg)
            r == Unwrap(ret)
        IN  /\ r.width >= 1
            /\ r.height >= 1
            /\ HotspotAndLength(r)
            /\ HotspotScaled(a.img, a.scale_factor, a.scale_type, r)

\* What scaled_to does keep: the hotspot stays inside the dimensions, the
\* buffer has 4 * width * height bytes, and the dimensions are non-zero when
\* the image is upscaled or is at least scale_factor wide and high.
C29_ScaledKeepsTheRest ==
    IsSome(ret) =>
        LET a == Unwrap(arg)
            r == Unwrap(ret)
        IN  /\ HotspotAndLength(r)
            /\ HotspotScaled(a.img, a.scale_factor, a.scale_type, r)
            /\ (\/ a.scale_type = "Upscale"
                \/ (a.img.width >= a.scale_factor /\ a.img.height >= a.scale_factor))
                   => (r.width >= 1 /\ r.height >= 1)


\* C30: on every expanded Scheme.Reg line parse_inf_installer returns
\* (theme name, mappings) or an error value and never panics, lines without
\* path entries and lines of fewer than four fields included.
C30_NeverPanics ==
    IsSome(ret) => Unwrap(ret).res \in {"ok", "err"}

\* parse_inf_installer panics only on a line that has an hkcu field and a
\* quoted name and no path entry; every line with a path entry, and every
\* line of fewer than three fields, gives a value or an error.
C30_PanicsOnlyWithoutPaths ==
    IsSome(ret) =>
        LET a == Unwrap(arg)
        IN  Unwrap(ret).res = "panic" <=>
                /\ IsHkcu(a.first)
                /\ a.nhead >= 3
                /\ a.paths = <<>>
                /\ Len(a.name) >= 2 /\ a.name[1] = Quote /\ a.name[Len(a.name)] = Quote


=============================================================================
